---- MODULE Spec2Model ----
(***************************************************************************)
(* Optical mark recognition of exam_grading/run_omr.py: the adaptive       *)
(* threshold, the classification of bubbles, the assembly of numeric and   *)
(* multiple-choice answers, and the walk over the page directories that    *)
(* folds them into the student-by-question table.                          *)
(*                                                                         *)
(* Intensities are integers in 0..255.  A threshold is a rational number   *)
(* (a midpoint or a mean), kept as a reduced fraction [n, d].              *)
(***************************************************************************)
EXTENDS Integers, Sequences, FiniteSets, TLC

\* ------------------------------------------------------------------ constants
MIN_JUMP == 25
GLOBAL_THRESHOLD == 210
DEFAULT_THRESHOLD == 200
DS_MARKER_VALUE == 100
BUBBLE_RADIUS == 7
\* THRESHOLD_CIRCLE = 0.6; correlation scores are counted in hundredths.
THRESHOLD_CIRCLE == 60

\* ------------------------------------------------------------------ fractions
RECURSIVE GCD(_, _)
GCD(a, b) == IF b = 0 THEN a ELSE GCD(b, a % b)

\* The rational n/d (d > 0), reduced.
Frac(n, d) ==
    LET g == GCD(n, d) IN [n |-> n \div g, d |-> d \div g]

IntFrac(i) == [n |-> i, d |-> 1]

FracLT(x, y) == x.n * y.d < y.n * x.d

\* A mutant of FracMin: the first argument, whatever the second is.
FracFirst(x, y) == x

\* Python's min(x, y): y when y < x, else x.
FracMin(x, y) == IF FracLT(y, x) THEN y ELSE x

\* "No threshold": the value of the threshold before one is computed.
NoThreshold == [n |-> 0, d |-> 0]

\* ------------------------------------------------------------------ lists
RECURSIVE SumSeq(_)
SumSeq(s) == IF s = <<>> THEN 0 ELSE Head(s) + SumSeq(Tail(s))

\* Insert x into the ascending list s, after the elements equal to it.
RECURSIVE InsertSorted(_, _)
InsertSorted(x, s) ==
    IF s = <<>> THEN <<x>>
    ELSE IF x < Head(s) THEN <<x>> \o s
    ELSE <<Head(s)>> \o InsertSorted(x, Tail(s))

\* sorted(values) on a list of numbers.
RECURSIVE SortedInts(_)
SortedInts(s) ==
    IF s = <<>> THEN <<>> ELSE InsertSorted(s[Len(s)], SortedInts(SubSeq(s, 1, Len(s) - 1)))

\* ------------------------------------------------------------------ calculate_threshold
\* A mutant of GapScan: a later pair with the same gap replaces the earlier one.
RECURSIVE GapScanLastTie(_, _, _, _)
GapScanLastTie(sorted_values, i, max_gap, threshold) ==
    IF i > Len(sorted_values) THEN [max_gap |-> max_gap, threshold |-> threshold]
    ELSE LET gap == sorted_values[i] - sorted_values[i - 1] IN
         IF gap > MIN_JUMP /\ gap >= max_gap
         THEN GapScanLastTie(sorted_values, i + 1, gap,
                             Frac(sorted_values[i] + sorted_values[i - 1], 2))
         ELSE GapScanLastTie(sorted_values, i + 1, max_gap, threshold)

\* A mutant of GapScan: a difference of exactly MIN_JUMP counts as a gap.
RECURSIVE GapScanInclusive(_, _, _, _)
GapScanInclusive(sorted_values, i, max_gap, threshold) ==
    IF i > Len(sorted_values) THEN [max_gap |-> max_gap, threshold |-> threshold]
    ELSE LET gap == sorted_values[i] - sorted_values[i - 1] IN
         IF gap >= MIN_JUMP /\ gap > max_gap
         THEN GapScanInclusive(sorted_values, i + 1, gap,
                               Frac(sorted_values[i] + sorted_values[i - 1], 2))
         ELSE GapScanInclusive(sorted_values, i + 1, max_gap, threshold)

\* The loop "for i in range(1, n)" over the sorted values; i is the 1-based
\* index of the upper value of the pair.
RECURSIVE GapScan(_, _, _, _)
GapScan(sorted_values, i, max_gap, threshold) ==
    IF i > Len(sorted_values) THEN [max_gap |-> max_gap, threshold |-> threshold]
    ELSE LET gap == sorted_values[i] - sorted_values[i - 1] IN
         IF gap > MIN_JUMP /\ gap > max_gap
         THEN GapScan(sorted_values, i + 1, gap,
                      Frac(sorted_values[i] + sorted_values[i - 1], 2))
         ELSE GapScan(sorted_values, i + 1, max_gap, threshold)

ScanGaps(sorted_values) ==
    GapScan(sorted_values, 2, 0, FracMin(IntFrac(DEFAULT_THRESHOLD), IntFrac(GLOBAL_THRESHOLD)))

\* A mutant of MeanFallback: the median of the values.
MedianFallback(sorted_values) == IntFrac(sorted_values[(Len(sorted_values) + 1) \div 2])

\* threshold = float(np.mean(sorted_values)), the fallback when no gap above
\* MIN_JUMP was found.
MeanFallback(sorted_values) == Frac(SumSeq(sorted_values), Len(sorted_values))

calculate_threshold(values) ==
    IF values = <<>>
    THEN FracMin(IntFrac(DEFAULT_THRESHOLD), IntFrac(GLOBAL_THRESHOLD))
    ELSE LET sorted_values == SortedInts(values)
             scan == ScanGaps(sorted_values)
             threshold == IF scan.max_gap = 0
                          THEN MeanFallback(sorted_values)
                          ELSE scan.threshold
         IN FracMin(threshold, IntFrac(GLOBAL_THRESHOLD))

\* ------------------------------------------------------------------ strings
\* A string is a sequence of one-character strings; Ord is the code point.
Ord(c) ==
    CASE c = " " -> 32 [] c = "+" -> 43
      [] c = "," -> 44 [] c = "-" -> 45 [] c = "." -> 46 [] c = "/" -> 47
      [] c = "0" -> 48 [] c = "1" -> 49 [] c = "2" -> 50 [] c = "3" -> 51
      [] c = "4" -> 52 [] c = "5" -> 53 [] c = "6" -> 54 [] c = "7" -> 55
      [] c = "8" -> 56 [] c = "9" -> 57
      [] c = "D" -> 68 [] c = "S" -> 83 [] c = "_" -> 95
      [] c = "a" -> 97 [] c = "b" -> 98 [] c = "c" -> 99 [] c = "d" -> 100
      [] c = "e" -> 101 [] c = "g" -> 103 [] c = "i" -> 105 [] c = "j" -> 106
      [] c = "n" -> 110 [] c = "p" -> 112 [] c = "s" -> 115 [] c = "t" -> 116
      [] c = "v" -> 118 [] c = "x" -> 120

\* Python's s < t on strings: lexicographic by code point, a prefix first.
RECURSIVE StrLT(_, _)
StrLT(s, t) ==
    IF t = <<>> THEN FALSE
    ELSE IF s = <<>> THEN TRUE
    ELSE IF Ord(Head(s)) < Ord(Head(t)) THEN TRUE
    ELSE IF Ord(Head(s)) > Ord(Head(t)) THEN FALSE
    ELSE StrLT(Tail(s), Tail(t))

RECURSIVE InsertStr(_, _)
InsertStr(x, s) ==
    IF s = <<>> THEN <<x>>
    ELSE IF StrLT(x, Head(s)) THEN <<x>> \o s
    ELSE <<Head(s)>> \o InsertStr(x, Tail(s))

\* sorted(choices) on a list of strings.
RECURSIVE SortedStrs(_)
SortedStrs(s) ==
    IF s = <<>> THEN <<>> ELSE InsertStr(s[Len(s)], SortedStrs(SubSeq(s, 1, Len(s) - 1)))

\* ','.join(strs)
RECURSIVE JoinComma(_)
JoinComma(strs) ==
    IF strs = <<>> THEN <<>>
    ELSE IF Len(strs) = 1 THEN strs[1]
    ELSE strs[1] \o <<",">> \o JoinComma(Tail(strs))

\* '-'.join(parts): the question string "<base>-<position>-<digit>" of a
\* numeric bubble from its parts.
RECURSIVE JoinDash(_)
JoinDash(parts) ==
    IF parts = <<>> THEN <<>>
    ELSE IF Len(parts) = 1 THEN parts[1]
    ELSE parts[1] \o <<"-">> \o JoinDash(Tail(parts))

\* '_'.join(parts)
RECURSIVE JoinUnderscore(_)
JoinUnderscore(parts) ==
    IF parts = <<>> THEN <<>>
    ELSE IF Len(parts) = 1 THEN parts[1]
    ELSE parts[1] \o <<"_">> \o JoinUnderscore(Tail(parts))

\* c in s, for a character c
Contains(s, c) == \E i \in 1..Len(s) : s[i] = c

\* s.split(sep) for a character sep: the parts between its occurrences, one
\* part when there is none.
RECURSIVE Split(_, _)
Split(s, sep) ==
    IF ~Contains(s, sep) THEN <<s>>
    ELSE LET i == CHOOSE j \in 1..Len(s) : s[j] = sep /\ \A k \in 1..(j - 1) : s[k] # sep
         IN <<SubSeq(s, 1, i - 1)>> \o Split(SubSeq(s, i + 1, Len(s)), sep)

\* s.startswith(prefix)
StartsWith(s, prefix) == Len(s) >= Len(prefix) /\ SubSeq(s, 1, Len(prefix)) = prefix

IsDigit(c) == Ord(c) >= Ord("0") /\ Ord(c) <= Ord("9")

\* s.strip(), the blank being the white space of the model's alphabet.
RECURSIVE Strip(_)
Strip(s) ==
    IF s = <<>> THEN s
    ELSE IF Head(s) = " " THEN Strip(Tail(s))
    ELSE IF s[Len(s)] = " " THEN Strip(SubSeq(s, 1, Len(s) - 1))
    ELSE s

\* A text without its sign, if it has one.
Unsigned(s) == IF s # <<>> /\ s[1] \in {"+", "-"} THEN Tail(s) ELSE s

\* int(s) accepts the text: blanks around it apart, a sign or none, then
\* decimal digits, single underscores allowed between two digits.
IsIntText(s) ==
    LET t == Unsigned(Strip(s)) IN
    /\ t # <<>>
    /\ IsDigit(t[1])
    /\ IsDigit(t[Len(t)])
    /\ \A i \in 1..Len(t) : IsDigit(t[i]) \/ (t[i] = "_" /\ t[i + 1] # "_")

\* The exception int() raises for any other text.
ValueError == "ValueError"

\* int(s): the number the text denotes, ValueError for a text that int()
\* rejects.
IntOf(s) ==
    LET t == Unsigned(Strip(s))
        value[i \in 0..Len(t)] ==
            IF i = 0 THEN 0
            ELSE IF t[i] = "_" THEN value[i - 1]
            ELSE 10 * value[i - 1] + (Ord(t[i]) - Ord("0"))
    IN IF ~IsIntText(s) THEN ValueError
       ELSE IF Strip(s)[1] = "-" THEN -value[Len(t)]
       ELSE value[Len(t)]

\* str.isdigit(), on the characters of the model's alphabet.
IsDigitStr(s) ==
    /\ s # <<>>
    /\ \A i \in 1..Len(s) : IsDigit(s[i])

\* ------------------------------------------------------------------ dictionaries
\* A Python dict is a sequence of [k, v] entries in insertion order, with
\* distinct keys.
DictHas(d, k) == \E i \in 1..Len(d) : d[i].k = k

DictGet(d, k) == d[CHOOSE i \in 1..Len(d) : d[i].k = k].v

\* d[k] = v: an existing key keeps its place and takes the new value.
DictSet(d, k, v) ==
    IF DictHas(d, k)
    THEN [i \in 1..Len(d) |-> IF d[i].k = k THEN [k |-> k, v |-> v] ELSE d[i]]
    ELSE Append(d, [k |-> k, v |-> v])

DictKeys(d) == {d[i].k : i \in 1..Len(d)}

\* ------------------------------------------------------------------ bubble table
\* A row of the bubble table (df_bubbles).  question is the string
\* str(bubble['question']): a problem number for a multiple-choice bubble,
\* "<base>-<position>-<digit>" for a numeric one.  Xpos and Ypos are whole
\* LaTeX points.
Row(page, question, subquestion, choice, Xpos, Ypos) ==
    [page |-> page, question |-> question, subquestion |-> subquestion,
     choice |-> choice, Xpos |-> Xpos, Ypos |-> Ypos]

\* df_bubbles[df_bubbles['page'] == page_number]
RECURSIVE PageBubbles(_, _)
PageBubbles(df_bubbles, page_number) ==
    IF df_bubbles = <<>> THEN <<>>
    ELSE IF Head(df_bubbles).page = page_number
         THEN <<Head(df_bubbles)>> \o PageBubbles(Tail(df_bubbles), page_number)
         ELSE PageBubbles(Tail(df_bubbles), page_number)

\* The key of a bubble, f"{num}.{sub}_{ch}".
Key(num, sub, ch) == num \o <<".">> \o sub \o <<"_">> \o ch

\* '-' in choice and len(choice.split('-')) >= 3
IsNumericChoice(choice) == Contains(choice, "-") /\ Len(Split(choice, "-")) >= 3

\* The key names a decimal-point or slash position: the part after the first
\* '_' has three parts or more at '-', the third of them D or S.
IsDecimalSlash(key) ==
    /\ Contains(key, "_")
    /\ LET choice_part == Split(key, "_")[2] IN
       /\ IsNumericChoice(choice_part)
       /\ Split(choice_part, "-")[3] \in {<<"D">>, <<"S">>}

\* ------------------------------------------------------------------ natural numbers of any size
\* The mantissa of a double has 53 binary digits, more than an integer of
\* the model holds: a natural number is the sequence of its digits in base
\* LimbBase, the lowest first, without a leading zero digit; <<>> is 0.
LimbBits == 15
LimbBase == 32768

RECURSIVE Pow2(_)
Pow2(n) == IF n = 0 THEN 1 ELSE 2 * Pow2(n - 1)

RECURSIVE BigNorm(_)
BigNorm(a) ==
    IF a = <<>> THEN <<>>
    ELSE IF a[Len(a)] = 0 THEN BigNorm(SubSeq(a, 1, Len(a) - 1))
    ELSE a

\* The natural number n < 2^31 of the model.
BigOfInt(n) ==
    IF n = 0 THEN <<>>
    ELSE IF n < LimbBase THEN <<n>>
    ELSE IF n \div LimbBase < LimbBase THEN <<n % LimbBase, n \div LimbBase>>
    ELSE <<n % LimbBase, (n \div LimbBase) % LimbBase, n \div (LimbBase * LimbBase)>>

RECURSIVE IntOfBigFrom(_, _)
IntOfBigFrom(a, i) ==
    IF i > Len(a) THEN 0 ELSE a[i] + LimbBase * IntOfBigFrom(a, i + 1)

\* The integer of the model for a < 2^31.
IntOfBig(a) == IntOfBigFrom(a, 1)

RECURSIVE BigCmpFrom(_, _, _)
BigCmpFrom(a, b, i) ==
    IF i = 0 THEN 0
    ELSE IF a[i] < b[i] THEN -1
    ELSE IF a[i] > b[i] THEN 1
    ELSE BigCmpFrom(a, b, i - 1)

\* -1, 0 or 1 as a < b, a = b or a > b.
BigCmp(a, b) ==
    IF Len(a) < Len(b) THEN -1
    ELSE IF Len(a) > Len(b) THEN 1
    ELSE BigCmpFrom(a, b, Len(a))

RECURSIVE BigAddFrom(_, _, _, _)
BigAddFrom(a, b, i, carry) ==
    IF i > Len(a) /\ i > Len(b)
    THEN IF carry = 0 THEN <<>> ELSE <<carry>>
    ELSE LET t == (IF i <= Len(a) THEN a[i] ELSE 0)
                  + (IF i <= Len(b) THEN b[i] ELSE 0) + carry
         IN <<t % LimbBase>> \o BigAddFrom(a, b, i + 1, t \div LimbBase)

BigAdd(a, b) == BigAddFrom(a, b, 1, 0)

RECURSIVE BigSubFrom(_, _, _, _)
BigSubFrom(a, b, i, borrow) ==
    IF i > Len(a) THEN <<>>
    ELSE LET t == a[i] - (IF i <= Len(b) THEN b[i] ELSE 0) - borrow
         IN IF t < 0 THEN <<t + LimbBase>> \o BigSubFrom(a, b, i + 1, 1)
            ELSE <<t>> \o BigSubFrom(a, b, i + 1, 0)

\* a - b for a >= b.
BigSub(a, b) == BigNorm(BigSubFrom(a, b, 1, 0))

RECURSIVE BigMulSmallFrom(_, _, _, _)
BigMulSmallFrom(a, k, i, carry) ==
    IF i > Len(a)
    THEN IF carry = 0 THEN <<>> ELSE <<carry>>
    ELSE LET t == a[i] * k + carry
         IN <<t % LimbBase>> \o BigMulSmallFrom(a, k, i + 1, t \div LimbBase)

\* a * k for 0 <= k < LimbBase.
BigMulSmall(a, k) == IF k = 0 THEN <<>> ELSE BigMulSmallFrom(a, k, 1, 0)

\* a * LimbBase^n
BigShiftLimbs(a, n) == IF a = <<>> THEN <<>> ELSE [i \in 1..n |-> 0] \o a

RECURSIVE BigMulFrom(_, _, _)
BigMulFrom(a, b, i) ==
    IF i > Len(b) THEN <<>>
    ELSE BigAdd(BigShiftLimbs(BigMulSmall(a, b[i]), i - 1), BigMulFrom(a, b, i + 1))

BigMul(a, b) == BigMulFrom(a, b, 1)

RECURSIVE BitLenInt(_)
BitLenInt(n) == IF n = 0 THEN 0 ELSE 1 + BitLenInt(n \div 2)

\* The number of binary digits of a.
BigBitLen(a) == IF a = <<>> THEN 0 ELSE LimbBits * (Len(a) - 1) + BitLenInt(a[Len(a)])

\* a * 2^s
BigShl(a, s) == BigShiftLimbs(BigMulSmall(a, Pow2(s % LimbBits)), s \div LimbBits)

\* a \div 2^s
BigShr(a, s) ==
    LET n == s \div LimbBits
        k == s % LimbBits
        lo == Pow2(k)
        hi == Pow2(LimbBits - k)
    IN IF n >= Len(a) THEN <<>>
       ELSE BigNorm([i \in 1..(Len(a) - n) |->
                       (a[i + n] \div lo)
                       + (IF i + n < Len(a) THEN (a[i + n + 1] % lo) * hi ELSE 0)])

BigOdd(a) == a # <<>> /\ a[1] % 2 = 1

\* One digit of the long division: rem < b * LimbBase is the running
\* remainder; the digit is estimated from the leading digits, never too
\* high, and raised while b still fits.
RECURSIVE DigitRaise(_, _, _)
DigitRaise(q, rem, b) ==
    IF BigCmp(rem, b) >= 0 THEN DigitRaise(q + 1, BigSub(rem, b), b)
    ELSE [q |-> q, r |-> rem]

DivDigitFrom(rem, b, est) ==
    DigitRaise(est, BigSub(rem, BigMulSmall(b, est)), b)

DivDigit(rem, b) ==
    LET n == Len(b)
        top == (IF Len(rem) > n THEN rem[n + 1] * LimbBase ELSE 0)
               + (IF Len(rem) >= n THEN rem[n] ELSE 0)
    IN DivDigitFrom(rem, b, IF top \div (b[n] + 1) >= LimbBase THEN LimbBase - 1
                            ELSE top \div (b[n] + 1))

\* The digits of a from the highest down: q collects the quotient digits found
\* so far, a leading zero digit left out.
RECURSIVE DivLoop(_, _, _, _, _)
DivStep(a, b, i, q, step) ==
    IF step.q = 0 /\ q = <<>>
    THEN DivLoop(a, b, i - 1, step.r, <<>>)
    ELSE DivLoop(a, b, i - 1, step.r, <<step.q>> \o q)

DivLoop(a, b, i, rem, q) ==
    IF i = 0 THEN [q |-> q, r |-> rem]
    ELSE DivStep(a, b, i, q, DivDigit(BigNorm(<<a[i]>> \o rem), b))

\* [q, r] with a = q * b + r and r < b, for b > 0.  Both are scaled so that
\* the leading digit of b is at least LimbBase / 2, which keeps the estimate
\* of a digit within three of it.
DivUnscale(res, k) == [q |-> res.q, r |-> BigShr(res.r, k)]

DivScaled(num, den, k) == DivUnscale(DivLoop(num, den, Len(num), <<>>, <<>>), k)

BigDivModBy(a, b, k) == DivScaled(BigShl(a, k), BigShl(b, k), k)

BigDivMod(a, b) == BigDivModBy(a, b, LimbBits - BitLenInt(b[Len(b)]))

\* ------------------------------------------------------------------ doubles
\* A Python float is an IEEE 754 double: (-1)^neg * m * 2^e with m < 2^53;
\* zero has m = <<>>.  Every operation gives the double nearest to the exact
\* result, a tie going to the even mantissa.  The values of the model are far
\* from the overflow and underflow of the exponent.
MantBits == 53

Dbl(neg, m, e) == [neg |-> neg, m |-> m, e |-> e]

\* The mantissa q goes up by one where the digits dropped are more than half
\* of its last place, or exactly half with q odd.
RoundUp(q, cmp_half) == cmp_half > 0 \/ (cmp_half = 0 /\ BigOdd(q))

\* A mantissa that rounding has carried to 54 digits is a power of two.
Renormal(neg, q, e) ==
    IF BigBitLen(q) > MantBits THEN Dbl(neg, BigShr(q, 1), e + 1) ELSE Dbl(neg, q, e)

\* m with its lowest s digits rounded away; q is m \div 2^s.
RoundAway(neg, m, e, s, q) ==
    Renormal(neg,
             IF RoundUp(q, BigCmp(BigSub(m, BigShl(q, s)), BigShl(<<1>>, s - 1)))
             THEN BigAdd(q, <<1>>) ELSE q,
             e + s)

RoundLen(neg, m, e, len) ==
    IF len <= MantBits THEN Dbl(neg /\ m # <<>>, m, IF m = <<>> THEN 0 ELSE e)
    ELSE RoundAway(neg, m, e, len - MantBits, BigShr(m, len - MantBits))

\* The double nearest to (-1)^neg * m * 2^e, for m of any size.
RoundDbl(neg, m, e) == RoundLen(neg, m, e, BigBitLen(m))

\* float(n) for an integer of the model.
DblOfInt(n) == IF n < 0 THEN Dbl(TRUE, BigOfInt(-n), 0) ELSE Dbl(FALSE, BigOfInt(n), 0)

\* a * b
DblMul(a, b) == RoundDbl(a.neg # b.neg, BigMul(a.m, b.m), a.e + b.e)

\* a / b for b # 0: the quotient of the mantissas to 56 binary digits or
\* more, with a last digit that tells whether the division left a remainder.
DivSticky(neg, d, e) ==
    RoundDbl(neg, BigAdd(BigShl(d.q, 1), IF d.r = <<>> THEN <<>> ELSE <<1>>), e)

DblDivBy(a, b, t) ==
    DivSticky(a.neg # b.neg, BigDivMod(BigShl(a.m, t), b.m), a.e - b.e - t - 1)

DblDiv(a, b) ==
    IF a.m = <<>> THEN Dbl(FALSE, <<>>, 0)
    ELSE DblDivBy(a, b, MantBits + 3 + BigBitLen(b.m) - BigBitLen(a.m))

\* a + b
\* x * 2^e and y * 2^e with the signs given, added exactly and rounded.
AddSigned(x_neg, x, y_neg, y, e, cmp) ==
    RoundDbl(IF x_neg = y_neg \/ cmp >= 0 THEN x_neg ELSE y_neg,
             IF x_neg = y_neg THEN BigAdd(x, y)
             ELSE IF cmp >= 0 THEN BigSub(x, y) ELSE BigSub(y, x),
             e)

AddAligned(x_neg, x, y_neg, y, e) == AddSigned(x_neg, x, y_neg, y, e, BigCmp(x, y))

AddAt(a, b, e) == AddAligned(a.neg, BigShl(a.m, a.e - e), b.neg, BigShl(b.m, b.e - e), e)

DblAdd(a, b) ==
    IF a.m = <<>> THEN b
    ELSE IF b.m = <<>> THEN a
    ELSE AddAt(a, b, IF a.e < b.e THEN a.e ELSE b.e)

\* a - b
DblSub(a, b) == DblAdd(a, Dbl(~b.neg /\ b.m # <<>>, b.m, b.e))

\* int(a): the whole part of the double, its fraction dropped.
Signed(neg, n) == IF neg THEN -n ELSE n

DblInt(a) ==
    Signed(a.neg, IntOfBig(IF a.e >= 0 THEN BigShl(a.m, a.e) ELSE BigShr(a.m, -a.e)))

\* The double a decimal literal n / d denotes (n an integer, d a power of ten).
DblOfDecimal(n, d) == DblDiv(DblOfInt(n), DblOfInt(d))

\* ------------------------------------------------------------------ point_to_pixel
\* The literal 72.27 of line 698.
LATEX_POINT == DblOfDecimal(7227, 100)

\* math.sqrt(2): the double nearest the square root of 2,
\* 0x1.6a09e667f3bcdp+0 = 6369051672525773 * 2^-52
\* = (5931641 * 2^30 + 645872589) * 2^-52 = 1.4142135623730951.
SQRT2 ==
    Dbl(FALSE, BigAdd(BigMul(BigOfInt(5931641), BigOfInt(1073741824)), BigOfInt(645872589)),
        -52)

\* offset = BUBBLE_RADIUS / math.sqrt(2), the double 4.949747468305833.
OFFSET == DblDiv(DblOfInt(BUBBLE_RADIUS), SQRT2)

\* A value handed to point_to_pixel: the double x of the decimal
\* units / 10000 points for offsets = 0, the double x - offset for
\* offsets = -1 and x + offset for offsets = 1 (lines 540-543).
Point(units, offsets) == [units |-> units, offsets |-> offsets]

WithOffset(x, offsets, offset) ==
    IF offsets = 0 THEN x
    ELSE IF offsets < 0 THEN DblSub(x, offset)
    ELSE DblAdd(x, offset)

PointDouble(point_value) ==
    WithOffset(DblOfDecimal(point_value.units, 10000), point_value.offsets, OFFSET)

\* point_value * dpi / 72.27 as line 698 computes it, in doubles.
PixelQuotient(point_value, dpi) ==
    DblDiv(DblMul(PointDouble(point_value), DblOfInt(dpi)), LATEX_POINT)

\* The exact quotient of the point value times dpi by 72.27 is
\* whole + f / 722700 for some f with lo + 1 <= f <= hi - 1: 10000 * 72.27 is
\* 722700, and 7 / sqrt(2) = 4.94974746... lies between 4.94974746 and
\* 4.94974747, so 10000 times the value plus or minus the offset is a whole
\* number and a fraction between 0.4746 and 0.4747 (plus) or between 0.5253
\* and 0.5254 (minus).  The doubles of line 698 round four times, each by
\* less than one part in 2^52, so the double quotient lies strictly between
\* whole + lo / 722700 and whole + hi / 722700 for every value up to
\* 10^5 points and every dpi below 2900.
QuotientBounds(point_value, dpi) ==
    LET n0 == point_value.units
              + (IF point_value.offsets = 0 THEN 0
                 ELSE IF point_value.offsets > 0 THEN 49497 ELSE -49498)
        frac == IF point_value.offsets = 0 THEN <<0, 0>>
                ELSE IF point_value.offsets > 0 THEN <<4746, 4747>> ELSE <<5253, 5254>>
        t == (n0 % 722700) * dpi
    IN [whole |-> (n0 \div 722700) * dpi,
        lo |-> t + (frac[1] * dpi) \div 10000 - 1,
        hi |-> t + (frac[2] * dpi + 9999) \div 10000 + 1]

\* A mutant of IntOfFloor: the quotient rounded down, as math.floor would.
KeepFloor(floor) == floor

\* A mutant of IntOfFloor: the whole part of the magnitude, the sign dropped.
MagnitudeOfFloor(floor) == IF floor >= 0 THEN floor ELSE -(floor + 1)

\* int(q) for a q that is no whole number, from floor(q): Python's int()
\* drops the fraction, so a negative q goes up to the next whole number.
IntOfFloor(floor) == IF floor >= 0 THEN floor ELSE floor + 1

\* int(point_value * dpi / 72.27).  Where the bounds of the quotient leave one
\* whole part only, that is the result; where they hold a whole number (the
\* exact quotient is a whole number of pixels, or within 0.0001 * dpi / 72.27
\* of one) the doubles decide.
point_to_pixel(point_value, dpi) ==
    LET b == QuotientBounds(point_value, dpi) IN
    IF b.lo \div 722700 = b.hi \div 722700
    THEN IntOfFloor(b.whole + b.lo \div 722700)
    ELSE DblInt(PixelQuotient(point_value, dpi))

\* ------------------------------------------------------------------ align_image_with_markers
\* A mutant of ConfidenceTooLow: a score at the limit is rejected too.
ConfidenceTooLowInclusive(confidence) == confidence <= THRESHOLD_CIRCLE

\* confidence < THRESHOLD_CIRCLE
ConfidenceTooLow(confidence) == confidence < THRESHOLD_CIRCLE

\* image.confidence[i] is the best correlation of the marker in corner i (top
\* left, top right, bottom left, bottom right), image.warped the box means of
\* the image cv2.warpPerspective gives for it; image.warps counts the warps
\* applied.  The loop returns the image at the first corner that fails.
align_image_with_markers(image) ==
    IF \E i \in 1..4 : ConfidenceTooLow(image.confidence[i])
    THEN image
    ELSE [image EXCEPT !.mean = image.warped, !.warps = @ + 1]

\* ------------------------------------------------------------------ detect_bubble_values
\* len(range(n)[start:stop]) for start >= 0: a negative stop counts from the end.
SliceLen(start, stop, n) ==
    LET lo == IF start > n THEN n ELSE start
        hi == IF stop < 0 THEN (IF stop + n < 0 THEN 0 ELSE stop + n)
              ELSE IF stop > n THEN n ELSE stop
    IN IF hi > lo THEN hi - lo ELSE 0

\* (left, top, right, bottom) of the inscribed square of a bubble, clipped as
\* the code clips it: x -/+ offset and y -/+ offset in pixels, offset the
\* double BUBBLE_RADIUS / math.sqrt(2).
max(a, b) == IF a >= b THEN a ELSE b

min(a, b) == IF a <= b THEN a ELSE b

BubbleBox(bubble, shape, dpi) ==
    LET x == bubble.Xpos * 10000
        y == bubble.Ypos * 10000
        left == point_to_pixel(Point(x, -1), dpi[1])
        top == point_to_pixel(Point(y, -1), dpi[2])
        right == point_to_pixel(Point(x, 1), dpi[1])
        bottom == point_to_pixel(Point(y, 1), dpi[2])
    IN << max(0, left), max(0, top), min(shape[2], right), min(shape[1], bottom) >>

\* image[top:bottom, left:right].size
RegionSize(box, shape) ==
    SliceLen(box[2], box[4], shape[1]) * SliceLen(box[1], box[3], shape[2])

\* The mean intensity read for one bubble; image.mean[box] is cv2.mean of the
\* pixels of the box in the blurred, normalised and aligned image.
MeanIntensity(image, box) ==
    IF RegionSize(box, image.shape) > 0 THEN image.mean[box] ELSE 255

\* Lines 556-579: a question with three parts or more at '-' is a numeric
\* bubble, keyed by its base question and the whole question string.
BubbleKey(bubble) ==
    IF IsNumericChoice(bubble.question)
    THEN Key(Split(bubble.question, "-")[1], bubble.subquestion, bubble.question)
    ELSE Key(bubble.question, bubble.subquestion, bubble.choice)

\* The value stored for a bubble whose box is pos: a decimal-point or slash
\* position gets the marker value, every other bubble the mean of its box.
BubbleValue(image, bubble, pos) ==
    IF IsNumericChoice(bubble.question)
       /\ Split(bubble.question, "-")[3] \in {<<"D">>, <<"S">>}
    THEN DS_MARKER_VALUE
    ELSE MeanIntensity(image, pos)

BubbleEntry(image, bubble, pos) ==
    [value |-> BubbleValue(image, bubble, pos), pos |-> pos]

\* The dicts bubble_values and bubble_positions as one dict:
\* key -> [value, pos], in the order of the rows of the page.
RECURSIVE DetectLoop(_, _, _)
DetectLoop(image, bubbles_df, acc) ==
    IF bubbles_df = <<>> THEN acc
    ELSE LET bubble == Head(bubbles_df) IN
         DetectLoop(image, Tail(bubbles_df),
                    DictSet(acc, BubbleKey(bubble),
                            BubbleEntry(image, bubble,
                                        BubbleBox(bubble, image.shape, image.dpi))))

detect_bubble_values(image, bubbles_df) == DetectLoop(image, bubbles_df, <<>>)

\* ------------------------------------------------------------------ marking
\* A mutant of IsMarked: a bubble at the threshold counts as marked.
IsMarkedInclusive(value, threshold) ==
    ~FracLT(threshold, IntFrac(value)) /\ value < GLOBAL_THRESHOLD

\* is_marked = (value < threshold and value < GLOBAL_THRESHOLD)
IsMarked(value, threshold) ==
    FracLT(IntFrac(value), threshold) /\ value < GLOBAL_THRESHOLD

\* A mutant of ValuesForThreshold: the values of all keys, the D/S positions
\* among them.
ValuesForThresholdAll(bubble_values) ==
    [i \in 1..Len(bubble_values) |-> bubble_values[i].v.value]

\* values_for_threshold: the values of the keys that are no D/S position.
RECURSIVE ValuesForThreshold(_)
ValuesForThreshold(bubble_values) ==
    IF bubble_values = <<>> THEN <<>>
    ELSE IF IsDecimalSlash(Head(bubble_values).k)
         THEN ValuesForThreshold(Tail(bubble_values))
         ELSE <<Head(bubble_values).v.value>> \o ValuesForThreshold(Tail(bubble_values))

\* A mutant of PageThreshold: calculate_threshold is called with the empty list too.
PageThresholdAlways(bubble_values) == calculate_threshold(ValuesForThreshold(bubble_values))

\* The threshold process_single_image classifies the page with.
PageThreshold(bubble_values) ==
    LET values_for_threshold == ValuesForThreshold(bubble_values) IN
    IF values_for_threshold # <<>>
    THEN calculate_threshold(values_for_threshold)
    ELSE IntFrac(GLOBAL_THRESHOLD)

\* A mutant of create_overlay_with_marks: a bubble at the threshold is drawn
\* as marked.
create_overlay_inclusive(bubble_values, threshold) ==
    [i \in 1..Len(bubble_values) |->
        [k |-> bubble_values[i].k,
         v |-> IF IsDecimalSlash(bubble_values[i].k) THEN "circle"
               ELSE IF IsMarkedInclusive(bubble_values[i].v.value, threshold)
                    THEN "MARKED_COLOR" ELSE "OVERLAY_COLOR"]]

\* create_overlay_with_marks: what is drawn for each key.
create_overlay_with_marks(bubble_values, threshold) ==
    [i \in 1..Len(bubble_values) |->
        [k |-> bubble_values[i].k,
         v |-> IF IsDecimalSlash(bubble_values[i].k) THEN "circle"
               ELSE IF IsMarked(bubble_values[i].v.value, threshold)
                    THEN "MARKED_COLOR" ELSE "OVERLAY_COLOR"]]

\* ------------------------------------------------------------------ process_single_image
\* "<problem>.<subquestion>", the key of a question in a student's answers.
Question(num, sub) == num \o <<".">> \o sub

\* A mutant of ClassifyOne: a later bubble of a position replaces the one kept.
ClassifyOneOverwrite(st, key, value, threshold) ==
    LET is_marked == IsMarked(value, threshold)
        row == IF IsDecimalSlash(key) THEN st.row ELSE DictSet(st.row, key, value)
        parts == Split(key, "_")
        question_subquestion == parts[1]
        choice == parts[2]
    IN IF Len(parts) # 2 THEN [st EXCEPT !.row = row]
       ELSE IF IsNumericChoice(choice)
       THEN LET choice_parts == Split(choice, "-")
                position == IntOf(choice_parts[2])
                digit_value == choice_parts[3]
            IN IF ~IsIntText(choice_parts[2])
               THEN [st EXCEPT !.row = row, !.raised = TRUE]
               ELSE IF digit_value \in {<<"D">>, <<"S">>} \/ is_marked
               THEN LET positions == IF DictHas(st.numeric_bubbles, question_subquestion)
                                     THEN DictGet(st.numeric_bubbles, question_subquestion)
                                     ELSE <<>>
                        stored == DictSet(positions, position, digit_value)
                    IN [st EXCEPT !.row = row,
                                  !.numeric_bubbles =
                                      DictSet(st.numeric_bubbles, question_subquestion, stored)]
               ELSE [st EXCEPT !.row = row]
       ELSE IF is_marked
            THEN LET choices == IF DictHas(st.regular_bubbles, question_subquestion)
                                THEN DictGet(st.regular_bubbles, question_subquestion)
                                ELSE <<>>
                 IN [st EXCEPT !.row = row,
                               !.regular_bubbles =
                                   DictSet(st.regular_bubbles, question_subquestion,
                                           Append(choices, choice))]
            ELSE [st EXCEPT !.row = row]

\* The first loop over bubble_values (lines 310-356): st holds results_df's
\* row of the student (row), numeric_bubbles and regular_bubbles.  A key that
\* has not exactly two parts at '_' is recorded in the row only.  The position
\* of a numeric bubble is read with int() at line 338, marked or not: a
\* position that is no number raises ValueError there, after the cell of the
\* key is set, and st.raised tells that the loop ended so.
ClassifyOne(st, key, value, threshold) ==
    LET is_marked == IsMarked(value, threshold)
        row == IF IsDecimalSlash(key) THEN st.row ELSE DictSet(st.row, key, value)
        parts == Split(key, "_")
        question_subquestion == parts[1]
        choice == parts[2]
    IN IF Len(parts) # 2 THEN [st EXCEPT !.row = row]
       ELSE IF IsNumericChoice(choice)
       THEN LET choice_parts == Split(choice, "-")
                position == IntOf(choice_parts[2])
                digit_value == choice_parts[3]
            IN IF ~IsIntText(choice_parts[2])
               THEN [st EXCEPT !.row = row, !.raised = TRUE]
               ELSE IF digit_value \in {<<"D">>, <<"S">>} \/ is_marked
               THEN LET positions == IF DictHas(st.numeric_bubbles, question_subquestion)
                                     THEN DictGet(st.numeric_bubbles, question_subquestion)
                                     ELSE <<>>
                        stored == IF DictHas(positions, position) THEN positions
                                  ELSE DictSet(positions, position, digit_value)
                    IN [st EXCEPT !.row = row,
                                  !.numeric_bubbles =
                                      DictSet(st.numeric_bubbles, question_subquestion, stored)]
               ELSE [st EXCEPT !.row = row]
       ELSE IF is_marked
            THEN LET choices == IF DictHas(st.regular_bubbles, question_subquestion)
                                THEN DictGet(st.regular_bubbles, question_subquestion)
                                ELSE <<>>
                 IN [st EXCEPT !.row = row,
                               !.regular_bubbles =
                                   DictSet(st.regular_bubbles, question_subquestion,
                                           Append(choices, choice))]
            ELSE [st EXCEPT !.row = row]

RECURSIVE ClassifyLoop(_, _, _)
ClassifyLoop(st, bubble_values, threshold) ==
    IF bubble_values = <<>> \/ st.raised THEN st
    ELSE ClassifyLoop(ClassifyOne(st, Head(bubble_values).k, Head(bubble_values).v.value,
                                  threshold),
                      Tail(bubble_values), threshold)

\* sorted(positions.items()): the entries in ascending position order.
RECURSIVE SortedPositions(_)
SortedPositions(positions) ==
    IF positions = <<>> THEN <<>>
    ELSE LET lo == CHOOSE i \in 1..Len(positions) :
                       \A j \in 1..Len(positions) : positions[i].k <= positions[j].k
         IN <<positions[lo]>>
            \o SortedPositions([i \in 1..(Len(positions) - 1) |->
                                   IF i < lo THEN positions[i] ELSE positions[i + 1]])

\* A mutant of DigitChar: D and S are written as they are stored.
DigitCharRaw(digit) == digit

\* The character a position contributes to the numeric answer.
DigitChar(digit) ==
    IF digit = <<"D">> THEN <<".">> ELSE IF digit = <<"S">> THEN <<"/">> ELSE digit

RECURSIVE ConcatDigits(_)
ConcatDigits(sorted_positions) ==
    IF sorted_positions = <<>> THEN <<>>
    ELSE DigitChar(Head(sorted_positions).v) \o ConcatDigits(Tail(sorted_positions))

\* A mutant of HasDigits: a group of D/S positions alone counts as an answer.
HasDigitsAlways(positions) == positions # <<>>

\* any(digit not in ['D', 'S'] for digit in positions.values())
HasDigits(positions) ==
    \E i \in 1..Len(positions) : positions[i].v \notin {<<"D">>, <<"S">>}

\* The second loop (lines 358-379): numeric answers appended to the student's
\* answers.
RECURSIVE StoreNumeric(_, _)
StoreNumeric(answers, numeric_bubbles) ==
    IF numeric_bubbles = <<>> THEN answers
    ELSE LET question == Head(numeric_bubbles).k
             positions == Head(numeric_bubbles).v
             old == IF DictHas(answers, question) THEN DictGet(answers, question) ELSE <<>>
             next == IF positions # <<>> /\ HasDigits(positions)
                     THEN DictSet(answers, question,
                                  Append(old, ConcatDigits(SortedPositions(positions))))
                     ELSE answers
         IN StoreNumeric(next, Tail(numeric_bubbles))

\* str(bubble['question']).startswith(f"{question_num}-")
StartsWithProblem(question, question_num) == StartsWith(question, question_num \o <<"-">>)

\* A mutant of IsOtherChoice: no choice is taken to be linked to a numeric group.
IsOtherChoiceNever(page_bubbles, question, choice) == FALSE

\* The choice is the "Other" choice of the question: some row of the page is
\* a numeric bubble of the problem with this subquestion and choice.
IsOtherChoice(page_bubbles, question, choice) ==
    LET question_num == Split(question, ".")[1]
        subquestion == Split(question, ".")[2]
    IN \E i \in 1..Len(page_bubbles) :
           /\ StartsWithProblem(page_bubbles[i].question, question_num)
           /\ page_bubbles[i].subquestion = subquestion
           /\ page_bubbles[i].choice = choice

\* A mutant of FilterChoices: only the first marked choice of a question is kept.
FilterChoicesFirst(choices, has_numeric_answer, page_bubbles, question) ==
    IF choices = <<>> THEN <<>> ELSE <<Head(choices)>>

RECURSIVE FilterChoices(_, _, _, _)
FilterChoices(choices, has_numeric_answer, page_bubbles, question) ==
    IF choices = <<>> THEN <<>>
    ELSE LET keep == ~has_numeric_answer
                     \/ ~IsOtherChoice(page_bubbles, question, Head(choices))
         IN (IF keep THEN <<Head(choices)>> ELSE <<>>)
            \o FilterChoices(Tail(choices), has_numeric_answer, page_bubbles, question)

\* The third loop (lines 381-411): the marked choices appended to the
\* student's answers.  has_numeric_answer is the truth value of the list the
\* student's answers hold for the question at that moment.
RECURSIVE StoreRegular(_, _, _)
StoreRegular(answers, regular_bubbles, page_bubbles) ==
    IF regular_bubbles = <<>> THEN answers
    ELSE LET question == Head(regular_bubbles).k
             choices == Head(regular_bubbles).v
             old == IF DictHas(answers, question) THEN DictGet(answers, question) ELSE <<>>
             has_numeric_answer == old # <<>>
             filtered_choices ==
                 FilterChoices(choices, has_numeric_answer, page_bubbles, question)
         IN StoreRegular(DictSet(answers, question, old \o filtered_choices),
                         Tail(regular_bubbles), page_bubbles)

\* What process_single_image returns for the overlay.
NoOverlay == [kind |-> "None", marks |-> <<>>]

\* The row of a student in results_df: the intensity of each bubble key and
\* the pageN_threshold columns.
EmptyRow == [cells |-> <<>>, threshold |-> <<>>]

\* The locals of a call of process_single_image, kept to state what it did.
NoCall ==
    [outcome |-> "none", image_path |-> <<>>, student_id |-> <<>>, page_number |-> 0,
     image |-> <<>>, bubble_values |-> <<>>, threshold |-> NoThreshold,
     numeric_bubbles |-> <<>>, regular_bubbles |-> <<>>]

\* A mutant of StudentEntry: the student's entry is started afresh on every page.
StudentEntryReset(all_student_answers, student_id) == <<>>

\* Lines 301-303: the student's answers, an empty dict for a new student.
StudentEntry(all_student_answers, student_id) ==
    IF DictHas(all_student_answers, student_id)
    THEN DictGet(all_student_answers, student_id) ELSE <<>>

\* A mutant of PageNumber: every image is taken for a scan of page 1.
PageNumberOne(image_path) == 1

\* int(image_path.parent.name) if image_path.parent.name.isdigit() else 1
PageNumber(image_path) == IF IsDigitStr(image_path.dir) THEN IntOf(image_path.dir) ELSE 1

\* The ValueError of line 338 leaves process_single_image: results_df holds
\* the cells set before it, the student has an entry in all_student_answers
\* (lines 302-303), no answer and no threshold column is stored and no
\* overlay is returned.
RaisedPage(call, results_df, all_student_answers, bubble_values, threshold, row, st) ==
    [overlay |-> NoOverlay,
     results_df |-> IF st.row = row.cells THEN results_df
                    ELSE DictSet(results_df, call.student_id,
                                 [cells |-> st.row, threshold |-> row.threshold]),
     all_student_answers |->
        DictSet(all_student_answers, call.student_id,
                StudentEntry(all_student_answers, call.student_id)),
     call |-> [call EXCEPT !.outcome = "raised",
                           !.bubble_values = bubble_values, !.threshold = threshold,
                           !.numeric_bubbles = st.numeric_bubbles,
                           !.regular_bubbles = st.regular_bubbles]]

\* Lines 291-420: the page once its bubbles are classified.  call holds the
\* student, the page number and the aligned image; row is the student's row
\* of results_df before the page, st the cells and the marked bubbles found.
ClassifiedPage(call, page_bubbles, results_df, all_student_answers, bubble_values, threshold, row, st) ==
    IF st.raised THEN RaisedPage(call, results_df, all_student_answers, bubble_values, threshold, row, st)
    ELSE
    [overlay |-> [kind |-> "overlay",
                  marks |-> create_overlay_with_marks(bubble_values, threshold)],
     results_df |->
        DictSet(results_df, call.student_id,
                [cells |-> st.row,
                 threshold |-> DictSet(row.threshold, call.page_number, threshold)]),
     all_student_answers |->
        DictSet(all_student_answers, call.student_id,
                StoreRegular(StoreNumeric(StudentEntry(all_student_answers,
                                                       call.student_id),
                                          st.numeric_bubbles),
                             st.regular_bubbles, page_bubbles)),
     call |-> [call EXCEPT !.outcome = "read",
                           !.bubble_values = bubble_values, !.threshold = threshold,
                           !.numeric_bubbles = st.numeric_bubbles,
                           !.regular_bubbles = st.regular_bubbles]]

\* Lines 291-356: the loop over bubble_values with the page's threshold.
ThresholdPage(call, page_bubbles, results_df, all_student_answers, bubble_values, threshold, row) ==
    ClassifiedPage(call, page_bubbles, results_df, all_student_answers, bubble_values,
                   threshold, row,
                   ClassifyLoop([row |-> row.cells, numeric_bubbles |-> <<>>,
                                 regular_bubbles |-> <<>>, raised |-> FALSE],
                                bubble_values, threshold))

\* Lines 268-289: no value read ends the page; else its threshold is set.
ValuesPage(call, page_bubbles, results_df, all_student_answers, bubble_values) ==
    IF bubble_values = <<>>
    THEN [overlay |-> [kind |-> "basic", marks |-> <<>>], results_df |-> results_df,
          all_student_answers |-> all_student_answers,
          call |-> [call EXCEPT !.outcome = "no_values"]]
    ELSE ThresholdPage(call, page_bubbles, results_df, all_student_answers,
                       bubble_values, PageThreshold(bubble_values),
                       IF DictHas(results_df, call.student_id)
                       THEN DictGet(results_df, call.student_id) ELSE EmptyRow)

\* The page once the image is aligned: a page without bubbles in the table
\* ends here, else the bubbles are read.
AlignedPage(call, page_bubbles, results_df, all_student_answers) ==
    IF page_bubbles = <<>>
    THEN [overlay |-> [kind |-> "image", marks |-> <<>>], results_df |-> results_df,
          all_student_answers |-> all_student_answers,
          call |-> [call EXCEPT !.outcome = "no_bubbles"]]
    ELSE ValuesPage(call, page_bubbles, results_df, all_student_answers,
                    detect_bubble_values(call.image, page_bubbles))

\* image_path is [dir, stem, ext], stem the list stem.split("_"); image is the
\* file's content.  The result holds the overlay returned and the two
\* arguments modified in place, results_df and all_student_answers.
process_single_image(image_path, image, df_bubbles, results_df, all_student_answers) ==
    IF ~image.readable
    THEN [overlay |-> NoOverlay, results_df |-> results_df,
          all_student_answers |-> all_student_answers,
          call |-> [NoCall EXCEPT !.image_path = image_path,
                                  !.student_id = image_path.stem[1],
                                  !.outcome = "load_failed"]]
    ELSE AlignedPage([NoCall EXCEPT !.image_path = image_path,
                                    !.student_id = image_path.stem[1],
                                    !.page_number = PageNumber(image_path),
                                    !.image = align_image_with_markers(image)],
                     PageBubbles(df_bubbles, PageNumber(image_path)),
                     results_df, all_student_answers)

\* ------------------------------------------------------------------ create_consolidated_output
\* A mutant of QuestionLT: the problem numbers compared as text.
QuestionLTText(p, q) ==
    \/ StrLT(Split(p, ".")[1], Split(q, ".")[1])
    \/ Split(p, ".")[1] = Split(q, ".")[1] /\ StrLT(Split(p, ".")[2], Split(q, ".")[2])

\* The sort key of line 731, (int(x.split('.')[0]), x.split('.')[1]), of p
\* is below that of q.  int() raises ValueError for a problem part that is
\* no number: the comparison has no value then.
QuestionLT(p, q) ==
    \/ IntOf(Split(p, ".")[1]) < IntOf(Split(q, ".")[1])
    \/ /\ IntOf(Split(p, ".")[1]) = IntOf(Split(q, ".")[1])
       /\ StrLT(Split(p, ".")[2], Split(q, ".")[2])

\* sorted(all_questions, key=...): the lists sorted() can return.  The
\* questions come from a set of strings, whose iteration order changes with
\* the hash seed of the process, and sorted() keeps questions of equal keys
\* ("1.i" and "01.i") in that order: every order of them is possible.
RECURSIVE SortedQuestions(_)
SortedQuestions(qs) ==
    IF qs = {} THEN {<<>>}
    ELSE UNION {{<<lo>> \o rest : rest \in SortedQuestions(qs \ {lo})} :
                   lo \in {q \in qs : \A o \in qs : ~QuestionLT(o, q)}}

\* sorted(strs) on a set of strings
RECURSIVE SortedStrSet(_)
SortedStrSet(strs) ==
    IF strs = {} THEN <<>>
    ELSE LET lo == CHOOSE x \in strs : \A o \in strs : ~StrLT(o, x)
         IN <<lo>> \o SortedStrSet(strs \ {lo})

\* The cell of a student and a question: the sorted tokens joined by commas,
\* '' when the student has no entry for the question.
Cell(answers, question) ==
    IF DictHas(answers, question) THEN JoinComma(SortedStrs(DictGet(answers, question)))
    ELSE <<>>

NoFile == [written |-> FALSE, index |-> <<>>, columns |-> <<>>, cells |-> <<>>]

\* create_consolidated_output ended by the ValueError of line 731, before
\* anything is written.
RaisedNoFile == [written |-> FALSE, raised |-> ValueError]

\* The key of line 731 raises for the question: its problem part is no number.
KeyRaises(question) == ~IsIntText(Split(question, ".")[1])

\* A mutant of StudentIndex: only the students with an answer get a row.
StudentIndexAnswered(all_student_answers) ==
    SortedStrSet({k \in DictKeys(all_student_answers) :
                     DictGet(all_student_answers, k) # <<>>})

\* The rows of the table: sorted(all_student_answers.keys()).
StudentIndex(all_student_answers) == SortedStrSet(DictKeys(all_student_answers))

\* The tables create_consolidated_output can write, one for each list
\* sorted() can return; NoFile when there is no student, RaisedNoFile when
\* sorted() calls the key on a question it raises for.
create_consolidated_output(all_student_answers) ==
    IF all_student_answers = <<>> THEN {NoFile}
    ELSE LET all_questions ==
                 UNION {DictKeys(all_student_answers[i].v) :
                            i \in 1..Len(all_student_answers)}
             index == StudentIndex(all_student_answers)
         IN IF \E question \in all_questions : KeyRaises(question) THEN {RaisedNoFile}
            ELSE
            {[written |-> TRUE, index |-> index, columns |-> sorted_questions,
              cells |-> [r \in 1..Len(index) |->
                            [c \in 1..Len(sorted_questions) |->
                                Cell(DictGet(all_student_answers, index[r]),
                                     sorted_questions[c])]]] :
                sorted_questions \in SortedQuestions(all_questions)}

\* ------------------------------------------------------------------ process_directory
\* The file name "<stem>.<ext>" of an image path.
FileName(f) == JoinUnderscore(f.stem) \o <<".">> \o f.ext

\* sorted(image_files): the files of one directory in ascending name order.
RECURSIVE SortedFiles(_)
SortedFiles(files) ==
    IF files = {} THEN <<>>
    ELSE LET lo == CHOOSE f \in files : \A o \in files : ~StrLT(FileName(o), FileName(f))
         IN <<lo>> \o SortedFiles(files \ {lo})

\* student_files: "<student_id>_<page_part>" -> the list of its files, for the
\* files whose stem has at least two parts.
RECURSIVE GroupFiles(_, _)
GroupFiles(image_files, student_files) ==
    IF image_files = <<>> THEN student_files
    ELSE LET f == Head(image_files)
             student_page_key == <<f.stem[1], f.stem[2]>>
             file_list == IF DictHas(student_files, student_page_key)
                          THEN DictGet(student_files, student_page_key) ELSE <<>>
         IN IF Len(f.stem) >= 2
            THEN GroupFiles(Tail(image_files),
                            DictSet(student_files, student_page_key, Append(file_list, f)))
            ELSE GroupFiles(Tail(image_files), student_files)

\* A mutant of AdditionalPages: the additional files are left out of the PDF.
AdditionalPagesNone(files, img) == <<>>

\* The pages added to a student's PDF for the additional files that load.
RECURSIVE AdditionalPages(_, _)
AdditionalPages(files, img) ==
    IF files = <<>> THEN <<>>
    ELSE (IF img[Head(files)].readable
          THEN <<[src |-> Head(files), overlay |-> [kind |-> "image", marks |-> <<>>]]>>
          ELSE <<>>)
         \o AdditionalPages(Tail(files), img)

\* A mutant of KeepOverlay: the pages are kept whatever came back.
KeepOverlayAlways(overlay_images, student_id, overlay, all_pages) ==
    DictSet(overlay_images, student_id, all_pages)

\* Lines 161-186: the pages of the group become the student's PDF pages when
\* process_single_image returned an overlay, and are dropped when it returned
\* None.
KeepOverlay(overlay_images, student_id, overlay, all_pages) ==
    IF overlay # NoOverlay THEN DictSet(overlay_images, student_id, all_pages)
    ELSE overlay_images

\* All orders of a set: the orders directory.iterdir() may list it in.
Orders(S) ==
    {o \in [1..Cardinality(S) -> S] : \A i, j \in 1..Cardinality(S) : i # j => o[i] # o[j]}

\* ------------------------------------------------------------------ state
VARIABLES
    pc,                   \* position of the run
    df_bubbles,           \* the bubble table
    fs,                   \* the parsed folder: root, subdirs, files, img
    all_student_answers,  \* student -> question -> list of tokens
    stack,                \* the active calls of process_directory
    csv_files,            \* page folder -> the per-page results written
    pdf_files,            \* <<page folder, student>> -> the pages of the PDF
    consolidated,         \* the consolidated table written
    last,                 \* the locals of the last call of process_single_image
    thr_values,           \* the list handed to calculate_threshold
    thr_result,           \* the threshold it returned
    pt,                   \* the calls of point_to_pixel: arguments and results
    earlier               \* the runs of run_omr before this one and the table they left

vars == <<pc, df_bubbles, fs, all_student_answers, stack, csv_files, pdf_files,
          consolidated, last, thr_values, thr_result, pt, earlier>>

\* ------------------------------------------------------------------ inputs
\* No run of run_omr before this one.
NoEarlier == [runs |-> 0, consolidated |-> NoFile]

\* No call of point_to_pixel observed.
NoPoint == [calls |-> 0, dpi |-> 0, value |-> Point(0, 0), result |-> 0,
            prev_value |-> Point(0, 0), prev_result |-> 0]

File(dir, stem, ext) == [dir |-> dir, stem |-> stem, ext |-> ext]

PNG == <<"p", "n", "g">>

\* Intensities a bubble is read at: two dark ones more than MIN_JUMP apart,
\* and two light ones on either side of the global threshold and closer than
\* MIN_JUMP to each other.
Levels == {30, 80, 200, 220}

\* The two extremes alone.
TwoLevels == {60, 220}

\* Question 1.i on page 1: the choices a, c and the "Other" choice e, whose
\* numeric group is a digit, a separator (D or S) and a digit.
TableFull(first, sep, last3) ==
    << Row(1, <<"1">>, <<"i">>, <<"a">>, 100, 100),
       Row(1, <<"1">>, <<"i">>, <<"c">>, 120, 100),
       Row(1, <<"1">>, <<"i">>, <<"e">>, 140, 100),
       Row(1, JoinDash(<< <<"1">>, <<"0">>, first >>), <<"i">>, <<"e">>, 160, 100),
       Row(1, JoinDash(<< <<"1">>, <<"1">>, sep >>), <<"i">>, <<"e">>, 180, 100),
       Row(1, JoinDash(<< <<"1">>, <<"2">>, last3 >>), <<"i">>, <<"e">>, 200, 100) >>

\* A page that holds nothing but a decimal point.
TableSeparators ==
    << Row(1, JoinDash(<< <<"1">>, <<"1">>, <<"D">> >>), <<"i">>, <<"e">>, 180, 100) >>

\* The choices a and c of question 1.i on page 1, its "Other" choice e and
\* the numeric group on page 2.
TableSplit ==
    << Row(1, <<"1">>, <<"i">>, <<"a">>, 100, 100),
       Row(1, <<"1">>, <<"i">>, <<"c">>, 120, 100),
       Row(2, <<"1">>, <<"i">>, <<"e">>, 140, 100),
       Row(2, JoinDash(<< <<"1">>, <<"0">>, <<"1">> >>), <<"i">>, <<"e">>, 160, 100),
       Row(2, JoinDash(<< <<"1">>, <<"1">>, <<"D">> >>), <<"i">>, <<"e">>, 180, 100) >>

\* Page 1 with one choice of each of the questions 10.i, 2.ii and 2.i, in
\* that order; no other page has a row.
TableMulti ==
    << Row(1, <<"1", "0">>, <<"i">>, <<"a">>, 100, 100),
       Row(1, <<"2">>, <<"i", "i">>, <<"a">>, 120, 100),
       Row(1, <<"2">>, <<"i">>, <<"a">>, 140, 100) >>

\* Question 1.i with a bubble on the page (a), one left of the origin (b),
\* one above it (c), one beyond the right edge (d) and one beyond the bottom
\* edge (e) of a page of 1700 x 2200 pixels at 200 dpi (614 x 795 points).
TableEdges ==
    << Row(1, <<"1">>, <<"i">>, <<"a">>, 100, 100),
       Row(1, <<"1">>, <<"i">>, <<"b">>, -10, 100),
       Row(1, <<"1">>, <<"i">>, <<"c">>, 100, -10),
       Row(1, <<"1">>, <<"i">>, <<"d">>, 700, 100),
       Row(1, <<"1">>, <<"i">>, <<"e">>, 100, 900) >>

\* The numeric group of question 1.i on page 1 with a decimal point and the
\* digit 7 at position 0, the point first, and the digits 3 and 4 at position 1.
TableShadow ==
    << Row(1, JoinDash(<< <<"1">>, <<"0">>, <<"D">> >>), <<"i">>, <<"e">>, 160, 100),
       Row(1, JoinDash(<< <<"1">>, <<"0">>, <<"7">> >>), <<"i">>, <<"e">>, 180, 100),
       Row(1, JoinDash(<< <<"1">>, <<"1">>, <<"3">> >>), <<"i">>, <<"e">>, 200, 100),
       Row(1, JoinDash(<< <<"1">>, <<"1">>, <<"4">> >>), <<"i">>, <<"e">>, 220, 100) >>

Root == <<"s", "c", "a", "n", "s">>
S1 == <<"s", "1">>
S2 == <<"s", "2">>

\* One page folder with one image.
TreeOne ==
    [root |-> Root,
     subdirs |-> (Root :> {<<"1">>}) @@ (<<"1">> :> {}),
     files |-> (Root :> {}) @@ (<<"1">> :> {File(<<"1">>, <<S1, <<"1">>>>, PNG)})]

\* Two page folders: two students on page 1, one of them on page 2 with an
\* additional file of the same group.
TreeTwo ==
    [root |-> Root,
     subdirs |-> (Root :> {<<"1">>, <<"2">>}) @@ (<<"1">> :> {}) @@ (<<"2">> :> {}),
     files |-> (Root :> {})
               @@ (<<"1">> :> {File(<<"1">>, <<S1, <<"1">>>>, PNG),
                               File(<<"1">>, <<S2, <<"1">>>>, PNG)})
               @@ (<<"2">> :> {File(<<"2">>, <<S1, <<"2">>>>, PNG),
                               File(<<"2">>, <<S1, <<"2">>, <<"b">>>>, PNG)})]

\* Page folders 1 and 3: two students on page 1, one of them on page 3.
TreeMulti ==
    [root |-> Root,
     subdirs |-> (Root :> {<<"1">>, <<"3">>}) @@ (<<"1">> :> {}) @@ (<<"3">> :> {}),
     files |-> (Root :> {})
               @@ (<<"1">> :> {File(<<"1">>, <<S1, <<"1">>>>, PNG),
                               File(<<"1">>, <<S2, <<"1">>>>, PNG)})
               @@ (<<"3">> :> {File(<<"3">>, <<S1, <<"3">>>>, PNG)})]

\* One page folder that holds two scans of one student, named for the pages
\* 1 and 2.
TreeDup ==
    [root |-> Root,
     subdirs |-> (Root :> {<<"1">>}) @@ (<<"1">> :> {}),
     files |-> (Root :> {})
               @@ (<<"1">> :> {File(<<"1">>, <<S1, <<"1">>>>, PNG),
                               File(<<"1">>, <<S1, <<"2">>>>, PNG)})]

\* The folder of page 1 with one scan and, inside it, the folder of page 2
\* with one scan.
TreeNested ==
    [root |-> Root,
     subdirs |-> (Root :> {<<"1">>}) @@ (<<"1">> :> {<<"2">>}) @@ (<<"2">> :> {}),
     files |-> (Root :> {})
               @@ (<<"1">> :> {File(<<"1">>, <<S1, <<"1">>>>, PNG)})
               @@ (<<"2">> :> {File(<<"2">>, <<S1, <<"2">>>>, PNG)})]

AllFiles(tree) == UNION {tree.files[d] : d \in DOMAIN tree.files}

PageShape == <<2200, 1700>>
PageDpi == <<200, 200>>

\* The boxes sampled on an image of the file: those of the rows of its page
\* that are no D/S position.
SampledBoxes(table, f) ==
    LET page_bubbles == PageBubbles(table, PageNumber(f)) IN
    {BubbleBox(page_bubbles[i], PageShape, PageDpi) :
        i \in {j \in 1..Len(page_bubbles) :
                  ~(IsNumericChoice(page_bubbles[j].question)
                    /\ Split(page_bubbles[j].question, "-")[3] \in {<<"D">>, <<"S">>})}}

\* A scan that loads: mean are the box means of the blurred and normalised
\* image, warped those of its perspective warp, confidence the marker scores
\* of its four corners in hundredths.
Readable(mean, warped, confidence) ==
    [readable |-> TRUE, shape |-> PageShape, dpi |-> PageDpi, mean |-> mean,
     warped |-> warped, confidence |-> confidence, warps |-> 0]

Unreadable ==
    [readable |-> FALSE, shape |-> <<0, 0>>, dpi |-> PageDpi, mean |-> <<>>,
     warped |-> <<>>, confidence |-> <<>>, warps |-> 0]

\* Four markers found where they belong.
GoodMarkers == {<<100, 100, 100, 100>>}

\* Scores at, above and below THRESHOLD_CIRCLE: all four at it, all above, the
\* first corner below, the last corner below.
MarkerScores ==
    {<<60, 60, 60, 60>>, <<61, 75, 60, 99>>, <<59, 60, 60, 60>>, <<60, 75, 99, 59>>}

\* The contents a file may have, an image that does not load among them.  The
\* first file of a group is a scan with any intensities; where the markers sit
\* in place (in.skewed is false) the warp leaves the box means as they are.
\* An additional file is never sampled, so only whether it loads is chosen.
Contents(in, f) ==
    LET maps == [SampledBoxes(in.table, f) -> in.levels] IN
    IF Len(f.stem) >= 3 THEN {Readable(<<>>, <<>>, <<100, 100, 100, 100>>), Unreadable}
    ELSE {Unreadable}
         \cup UNION {{Readable(m, w, c) : w \in (IF in.skewed THEN maps ELSE {m}),
                                          c \in in.confidences} : m \in maps}

\* A run: a bubble table, a folder tree, the intensities its scans are drawn
\* from, the marker scores of its scans and whether the scans are skewed.
Run(table, tree, levels, confidences, skewed) ==
    [table |-> table, tree |-> tree, levels |-> levels, confidences |-> confidences,
     skewed |-> skewed]

\* The runs checked.
Inputs ==
    {Run(TableFull(<<"1">>, <<"D">>, <<"5">>), TreeOne, Levels, GoodMarkers, FALSE),
     Run(TableFull(<<"3">>, <<"S">>, <<"4">>), TreeOne, TwoLevels, GoodMarkers, FALSE),
     Run(TableSeparators, TreeOne, Levels, GoodMarkers, FALSE),
     Run(TableSplit, TreeTwo, TwoLevels, GoodMarkers, FALSE),
     Run(TableMulti, TreeMulti, TwoLevels, GoodMarkers, FALSE),
     Run(TableSplit, TreeOne, TwoLevels, MarkerScores, TRUE),
     Run(TableEdges, TreeOne, TwoLevels, GoodMarkers, FALSE),
     Run(TableSplit, TreeDup, TwoLevels, GoodMarkers, FALSE),
     Run(TableShadow, TreeOne, TwoLevels, GoodMarkers, FALSE),
     Run(TableSplit, TreeNested, TwoLevels, GoodMarkers, FALSE)}

\* All assignments of contents to the files.
RECURSIVE Images(_, _)
Images(in, files) ==
    IF files = {} THEN {<<>>}
    ELSE LET f == CHOOSE x \in files : TRUE IN
         {(f :> c) @@ g : c \in Contents(in, f), g \in Images(in, files \ {f})}

\* ------------------------------------------------------------------ run_omr
Init ==
    /\ pc = "start"
    /\ \E in \in Inputs :
          /\ df_bubbles = in.table
          /\ fs \in {[root |-> in.tree.root, subdirs |-> in.tree.subdirs,
                      files |-> in.tree.files, img |-> img] :
                        img \in Images(in, AllFiles(in.tree))}
    /\ all_student_answers = <<>>
    /\ stack = <<>>
    /\ csv_files = <<>>
    /\ pdf_files = <<>>
    /\ consolidated = NoFile
    /\ last = NoCall
    /\ earlier = NoEarlier
    /\ thr_values = <<>>
    /\ thr_result = NoThreshold
    /\ pt = NoPoint

\* The locals of a call of process_directory at its start: the groups of the
\* directory's images and its subdirectories in the order iterdir() gave.
Frame(directory, subdirs) ==
    LET image_files == SortedFiles(fs.files[directory]) IN
    [directory |-> directory,
     has_images |-> image_files # <<>>,
     phase |-> IF image_files # <<>> THEN "groups" ELSE "subdirs",
     groups |-> GroupFiles(image_files, <<>>),
     subdirs |-> subdirs,
     results_df |-> <<>>,
     overlay_images |-> <<>>]

Top == stack[Len(stack)]

\* run_omr up to its call of process_directory on the parsed folder.
RunOmr ==
    /\ pc = "start"
    /\ \E subdirs \in Orders(fs.subdirs[fs.root]) :
          stack' = <<Frame(fs.root, subdirs)>>
    /\ all_student_answers' = <<>>
    /\ pc' = "walk"
    /\ UNCHANGED <<earlier, df_bubbles, fs, csv_files, pdf_files, consolidated, last,
                   thr_values, thr_result, pt>>

\* Lines 164-186: what the loop keeps of a group whose main file is
\* through; r is what process_single_image returned and left in its arguments.
\* An exception of process_single_image is caught nowhere (lines 160 and 91):
\* the run ends with it, pc = "raised", and nothing more is written.
KeepGroup(student_id, file_list, r) ==
    /\ all_student_answers' = r.all_student_answers
    /\ last' = r.call
    /\ pc' = IF r.call.outcome = "raised" THEN "raised" ELSE pc
    /\ stack' = IF r.call.outcome = "raised"
                THEN [stack EXCEPT ![Len(stack)].results_df = r.results_df]
                ELSE [stack EXCEPT ![Len(stack)] =
          [Top EXCEPT !.groups = Tail(Top.groups),
                      !.results_df = r.results_df,
                      !.overlay_images =
                          KeepOverlay(Top.overlay_images, student_id, r.overlay,
                                      <<[src |-> file_list[1], overlay |-> r.overlay]>>
                                      \o AdditionalPages(Tail(file_list), fs.img))]]

\* Lines 152-161: the sorted files of a group, the first of them the main file.
ProcessFiles(student_id, file_list) ==
    KeepGroup(student_id, file_list,
              process_single_image(file_list[1], fs.img[file_list[1]], df_bubbles,
                                   Top.results_df, all_student_answers))

\* One turn of the loop over student_files (lines 151-186): the first file
\* of the group goes through process_single_image, the others are added to
\* the PDF pages as they are.
ProcessGroup ==
    /\ pc = "walk"
    /\ stack # <<>>
    /\ Top.phase = "groups"
    /\ Top.groups # <<>>
    /\ ProcessFiles(Head(Top.groups).k[1],
                    SortedFiles({Head(Top.groups).v[i] :
                                    i \in 1..Len(Head(Top.groups).v)}))
    /\ UNCHANGED <<earlier, df_bubbles, fs, csv_files, pdf_files, consolidated,
                   thr_values, thr_result, pt>>

\* The PDFs of overlay_images written into the page folder.
RECURSIVE SavePdfs(_, _, _)
SavePdfs(files, page, overlay_images) ==
    IF overlay_images = <<>> THEN files
    ELSE SavePdfs(DictSet(files, <<page, Head(overlay_images).k>>, Head(overlay_images).v),
                  page, Tail(overlay_images))

\* Lines 188-207: the per-page CSV and the PDFs of the directory are written
\* once its groups are through.
WriteOutputs ==
    /\ pc = "walk"
    /\ stack # <<>>
    /\ Top.phase = "groups"
    /\ Top.groups = <<>>
    /\ csv_files' = DictSet(csv_files, Top.directory, Top.results_df)
    /\ pdf_files' = SavePdfs(pdf_files, Top.directory, Top.overlay_images)
    /\ stack' = [stack EXCEPT ![Len(stack)].phase = "subdirs"]
    /\ UNCHANGED <<earlier, pc, df_bubbles, fs, all_student_answers, consolidated, last,
                   thr_values, thr_result, pt>>

\* A mutant of EnterSubdir: the recursive call does not wait for the groups
\* and the outputs of the directory.
EnterSubdirEarly ==
    /\ pc = "walk"
    /\ stack # <<>>
    /\ Top.subdirs # <<>>
    /\ \E subdirs \in Orders(fs.subdirs[Head(Top.subdirs)]) :
          stack' = Append([stack EXCEPT ![Len(stack)].subdirs = Tail(Top.subdirs)],
                          Frame(Head(Top.subdirs), subdirs))
    /\ UNCHANGED <<earlier, pc, df_bubbles, fs, all_student_answers, csv_files, pdf_files,
                   consolidated, last, thr_values, thr_result, pt>>

\* Lines 210-211: the recursive call on the next subdirectory.
EnterSubdir ==
    /\ pc = "walk"
    /\ stack # <<>>
    /\ Top.phase = "subdirs"
    /\ Top.subdirs # <<>>
    /\ \E subdirs \in Orders(fs.subdirs[Head(Top.subdirs)]) :
          stack' = Append([stack EXCEPT ![Len(stack)].subdirs = Tail(Top.subdirs)],
                          Frame(Head(Top.subdirs), subdirs))
    /\ UNCHANGED <<earlier, pc, df_bubbles, fs, all_student_answers, csv_files, pdf_files,
                   consolidated, last, thr_values, thr_result, pt>>

\* process_directory returns to its caller.
ReturnFromDirectory ==
    /\ pc = "walk"
    /\ stack # <<>>
    /\ Top.phase = "subdirs"
    /\ Top.subdirs = <<>>
    /\ stack' = SubSeq(stack, 1, Len(stack) - 1)
    /\ pc' = IF Len(stack) = 1 THEN "consolidate" ELSE "walk"
    /\ UNCHANGED <<earlier, df_bubbles, fs, all_student_answers, csv_files, pdf_files,
                   consolidated, last, thr_values, thr_result, pt>>

\* run_omr's call of create_consolidated_output and its return: the file is
\* written over, or left as it is when the function returns early or raises.
Consolidate ==
    /\ pc = "consolidate"
    /\ \E out \in create_consolidated_output(all_student_answers) :
          /\ consolidated' = IF out.written THEN out ELSE consolidated
          /\ pc' = IF out = RaisedNoFile THEN "raised" ELSE "done"
    /\ UNCHANGED <<earlier, df_bubbles, fs, all_student_answers, stack, csv_files, pdf_files,
                   last, thr_values, thr_result, pt>>

Next ==
    \/ RunOmr
    \/ ProcessGroup
    \/ WriteOutputs
    \/ EnterSubdir
    \/ ReturnFromDirectory
    \/ Consolidate

Spec == Init /\ [][Next]_vars

\* ------------------------------------------------------------------ run_omr twice
\* run_omr is called again with the same arguments: the parsed folder and the
\* bubble table are as they were, the output folder holds what the run before
\* wrote, and all_student_answers starts empty again (line 91).
RunAgain ==
    /\ pc = "done"
    /\ earlier.runs = 0
    /\ earlier' = [runs |-> 1, consolidated |-> consolidated]
    /\ pc' = "start"
    /\ UNCHANGED <<df_bubbles, fs, all_student_answers, stack, csv_files, pdf_files,
                   consolidated, last, thr_values, thr_result, pt>>

\* Two page folders with the questions of TableSplit, every file loads.
InitTwice ==
    /\ Init
    /\ df_bubbles = TableSplit
    /\ fs.files = TreeTwo.files
    /\ \A f \in AllFiles(TreeTwo) : fs.img[f].readable

NextTwice == Next \/ RunAgain

SpecTwice == InitTwice /\ [][NextTwice]_vars

\* ------------------------------------------------------------------ calculate_threshold alone
MaxLen == 4

\* Intensities that give gaps of exactly 25 (60, 85), of 26 (85, 111), equal
\* largest gaps (10, 60, 110), half-integer midpoints and midpoints above 210.
ThrIntensities == {10, 60, 85, 110, 111, 200, 255}

DocExample == <<50, 55, 60, 180, 185, 190>>

ThrInputs == (UNION {[1..n -> ThrIntensities] : n \in 0..MaxLen}) \cup {DocExample}

InitThr ==
    /\ pc = "thr_call"
    /\ thr_values \in ThrInputs
    /\ thr_result = NoThreshold
    /\ df_bubbles = <<>>
    /\ fs = <<>>
    /\ all_student_answers = <<>>
    /\ stack = <<>>
    /\ csv_files = <<>>
    /\ pdf_files = <<>>
    /\ consolidated = NoFile
    /\ last = NoCall
    /\ earlier = NoEarlier
    /\ pt = NoPoint

CallCalculateThreshold ==
    /\ pc = "thr_call"
    /\ thr_result' = calculate_threshold(thr_values)
    /\ pc' = "thr_returned"
    /\ UNCHANGED <<earlier, thr_values, df_bubbles, fs, all_student_answers, stack, csv_files,
                   pdf_files, consolidated, last, pt>>

NextThr == CallCalculateThreshold

SpecThr == InitThr /\ [][NextThr]_vars

\* ------------------------------------------------------------------ point_to_pixel alone
MaxCalls == 2

\* Point values: -100 points, values on either side of one pixel at 200 dpi
\* (0.3613, 0.3614) and their negatives, zero, one inch (72.27), values whose
\* quotient is a whole number of pixels (19.5129 points at 200 and 300 dpi,
\* 27.4626 at 150, 200 and 300, 102.3825 at 72 and 300), and the edges
\* x - offset and x + offset of the inscribed square for x = 0 and x = -10.
PtValues ==
    {Point(-1000000, 0), Point(-195129, 0), Point(-5000, 0), Point(-3613, 0),
     Point(0, 0), Point(3613, 0), Point(3614, 0), Point(195129, 0),
     Point(274626, 0), Point(722700, 0), Point(1023825, 0),
     Point(0, -1), Point(0, 1), Point(-100000, 1)}

PtDpis == {72, 150, 200, 300}

InitPx ==
    /\ pc = "px_call"
    /\ pt \in {[NoPoint EXCEPT !.dpi = d, !.value = v] : d \in PtDpis, v \in PtValues}
    /\ thr_values = <<>>
    /\ thr_result = NoThreshold
    /\ df_bubbles = <<>>
    /\ fs = <<>>
    /\ all_student_answers = <<>>
    /\ stack = <<>>
    /\ csv_files = <<>>
    /\ pdf_files = <<>>
    /\ consolidated = NoFile
    /\ last = NoCall
    /\ earlier = NoEarlier

CallPointToPixel ==
    /\ pc = "px_call"
    /\ pt' = [pt EXCEPT !.result = point_to_pixel(pt.value, pt.dpi), !.calls = @ + 1]
    /\ pc' = "px_returned"
    /\ UNCHANGED <<earlier, thr_values, thr_result, df_bubbles, fs, all_student_answers, stack,
                   csv_files, pdf_files, consolidated, last>>

\* The caller converts another value at the same dpi (left, then right, of a
\* bubble's box).
NextPoint ==
    /\ pc = "px_returned"
    /\ pt.calls < MaxCalls
    /\ \E v \in PtValues :
          pt' = [pt EXCEPT !.prev_value = pt.value, !.prev_result = pt.result, !.value = v]
    /\ pc' = "px_call"
    /\ UNCHANGED <<earlier, thr_values, thr_result, df_bubbles, fs, all_student_answers, stack,
                   csv_files, pdf_files, consolidated, last>>

NextPx == CallPointToPixel \/ NextPoint

SpecPx == InitPx /\ [][NextPx]_vars

\* ------------------------------------------------------------------ claims on calculate_threshold
ValuesOf(values) == {values[i] : i \in 1..Len(values)}

\* The pairs of distinct values that are consecutive in ascending order.
ConsecutivePairs(values) ==
    {p \in ValuesOf(values) \X ValuesOf(values) :
        /\ p[1] < p[2]
        /\ ~\E v \in ValuesOf(values) : p[1] < v /\ v < p[2]}

HasJump(values) == \E p \in ConsecutivePairs(values) : p[2] - p[1] > MIN_JUMP

\* The pair with the largest difference, the lowest one among equals.
LargestGapPair(values) ==
    CHOOSE p \in ConsecutivePairs(values) :
        \A q \in ConsecutivePairs(values) :
            \/ q[2] - q[1] < p[2] - p[1]
            \/ q[2] - q[1] = p[2] - p[1] /\ p[1] <= q[1]

\* The fraction t is min(GLOBAL_THRESHOLD, n / d).
IsCappedQuotient(t, n, d) ==
    /\ t.d > 0
    /\ IF n > GLOBAL_THRESHOLD * d
       THEN t.n = GLOBAL_THRESHOLD * t.d
       ELSE t.n * d = n * t.d

\* C1: for a non-empty list with a consecutive sorted pair more than MIN_JUMP
\* apart, calculate_threshold returns min(210, midpoint of the pair with the
\* largest difference), the lowest such pair when several tie.
Thm_C1 ==
    (pc = "thr_returned" /\ thr_values # <<>> /\ HasJump(thr_values))
    => LET p == LargestGapPair(thr_values) IN IsCappedQuotient(thr_result, p[1] + p[2], 2)

\* [50,55,60,180,185,190] gives 120.
Witness_C1 ==
    pc = "thr_returned" /\ thr_values = DocExample /\ thr_result = IntFrac(120)

\* C4: for a non-empty list with no consecutive sorted pair more than MIN_JUMP
\* apart (exactly MIN_JUMP is no gap), calculate_threshold returns
\* min(210, mean of the values).
Thm_C4 ==
    (pc = "thr_returned" /\ thr_values # <<>> /\ ~HasJump(thr_values))
    => IsCappedQuotient(thr_result, SumSeq(thr_values), Len(thr_values))

\* 60, 60 and 85 are exactly MIN_JUMP apart: the mean, 205/3, is returned.
Witness_C4 ==
    /\ pc = "thr_returned"
    /\ thr_values = <<85, 60, 60>>
    /\ thr_result = [n |-> 205, d |-> 3]

\* ------------------------------------------------------------------ claims on process_single_image
\* The step is a call of process_single_image (every call names another file).
IsCall == last' # last

\* The intensity v is strictly below the threshold t and below the ceiling.
BelowBoth(v, t) == v * t.d < t.n /\ v < GLOBAL_THRESHOLD

EntryQuestion(e) == Split(e.k, "_")[1]
EntryChoice(e) == Split(e.k, "_")[2]
EntryIsNumeric(e) == Len(Split(EntryChoice(e), "-")) >= 3
EntryIsSeparator(e) ==
    EntryIsNumeric(e) /\ Split(EntryChoice(e), "-")[3] \in {<<"D">>, <<"S">>}
EntryPosition(e) == IntOf(Split(EntryChoice(e), "-")[2])
EntryDigit(e) == Split(EntryChoice(e), "-")[3]

\* The questions with numeric bubbles, and with multiple-choice bubbles, on
\* the page of call c.
NumericQuestions(c) ==
    {EntryQuestion(c.bubble_values[i]) :
        i \in {j \in 1..Len(c.bubble_values) : EntryIsNumeric(c.bubble_values[j])}}

RegularQuestions(c) ==
    {EntryQuestion(c.bubble_values[i]) :
        i \in {j \in 1..Len(c.bubble_values) : ~EntryIsNumeric(c.bubble_values[j])}}

\* The numeric bubbles of question q that qualify for its group: the D/S
\* positions and the marked digits.
Qualifying(c, q) ==
    {i \in 1..Len(c.bubble_values) :
        LET e == c.bubble_values[i] IN
        /\ EntryIsNumeric(e)
        /\ EntryQuestion(e) = q
        /\ (EntryIsSeparator(e) \/ BelowBoth(e.v.value, c.threshold))}

OccupiedPositions(c, q) == {EntryPosition(c.bubble_values[i]) : i \in Qualifying(c, q)}

\* The digit code kept for position p: that of the first qualifying bubble.
KeptDigit(c, q, p) ==
    LET first == CHOOSE i \in Qualifying(c, q) :
                     /\ EntryPosition(c.bubble_values[i]) = p
                     /\ \A j \in Qualifying(c, q) :
                            EntryPosition(c.bubble_values[j]) = p => i <= j
    IN EntryDigit(c.bubble_values[first])

\* A digit bubble (0-9) of q is marked.
MarkedDigit(c, q) ==
    \E i \in Qualifying(c, q) : ~EntryIsSeparator(c.bubble_values[i])

\* Some position of q keeps a digit, so that a numeric answer is produced.
ProducesNumeric(c, q) ==
    \E p \in OccupiedPositions(c, q) : KeptDigit(c, q, p) \notin {<<"D">>, <<"S">>}

\* The marked multiple-choice choices of q.
MarkedChoices(c, q) ==
    {EntryChoice(c.bubble_values[i]) :
        i \in {j \in 1..Len(c.bubble_values) :
                  LET e == c.bubble_values[j] IN
                  /\ ~EntryIsNumeric(e)
                  /\ EntryQuestion(e) = q
                  /\ BelowBoth(e.v.value, c.threshold)}}

\* The choice is linked to the numeric group of q on the page of call c.
LinkedChoice(c, q, choice) ==
    \E i \in 1..Len(df_bubbles) :
        /\ df_bubbles[i].page = c.page_number
        /\ StartsWith(df_bubbles[i].question, Split(q, ".")[1] \o <<"-">>)
        /\ df_bubbles[i].subquestion = Split(q, ".")[2]
        /\ df_bubbles[i].choice = choice

\* The string e is the characters of the occupied positions of q in ascending
\* position order, D as '.', S as '/', a digit as it is.
IsConcatenation(e, c, q) ==
    /\ Len(e) = Cardinality(OccupiedPositions(c, q))
    /\ \A p \in OccupiedPositions(c, q) :
          LET rank == 1 + Cardinality({o \in OccupiedPositions(c, q) : o < p})
              digit == KeptDigit(c, q, p)
          IN e[rank] = (IF digit = <<"D">> THEN "." ELSE IF digit = <<"S">> THEN "/"
                        ELSE digit[1])

\* The list a table holds for a student and a question, [] when it has none.
TokensOf(table, student_id, q) ==
    IF DictHas(table, student_id) /\ DictHas(DictGet(table, student_id), q)
    THEN DictGet(DictGet(table, student_id), q) ELSE <<>>

IsPrefix(s, t) == Len(s) <= Len(t) /\ SubSeq(t, 1, Len(s)) = s

\* The tokens the step added to the list of the student of the call.
Appended(q) ==
    LET old == TokensOf(all_student_answers, last'.student_id, q)
        new == TokensOf(all_student_answers', last'.student_id, q)
    IN SubSeq(new, Len(old) + 1, Len(new))

AppendedSet(q) == {Appended(q)[i] : i \in 1..Len(Appended(q))}

\* C2: a bubble that is no D/S position is classified marked exactly when its
\* intensity is strictly below the page threshold and below 210 (a marked
\* choice joins regular_bubbles, a marked digit occupies its position and
\* only a marked digit is kept); a D/S position occupies its position whatever
\* its value and the threshold.
Thm_C2 ==
    last.outcome = "read" =>
    \A i \in 1..Len(last.bubble_values) :
        LET e == last.bubble_values[i]
            q == EntryQuestion(e)
            marked == BelowBoth(e.v.value, last.threshold)
            positions == IF DictHas(last.numeric_bubbles, q)
                         THEN DictGet(last.numeric_bubbles, q) ELSE <<>>
            choices == IF DictHas(last.regular_bubbles, q)
                       THEN DictGet(last.regular_bubbles, q) ELSE <<>>
        IN IF EntryIsSeparator(e) THEN DictHas(positions, EntryPosition(e))
           ELSE IF EntryIsNumeric(e)
           THEN /\ marked => DictHas(positions, EntryPosition(e))
                /\ (DictHas(positions, EntryPosition(e))
                    /\ DictGet(positions, EntryPosition(e)) = EntryDigit(e)) => marked
           ELSE marked <=> (\E j \in 1..Len(choices) : choices[j] = EntryChoice(e))

\* A page read at threshold 55: a choice at 30 is marked, one at 80 is not,
\* and the decimal point (value 100) holds its position all the same.
Witness_C2 ==
    /\ last.outcome = "read"
    /\ last.threshold = IntFrac(55)
    /\ \E i, j, k \in 1..Len(last.bubble_values) :
          /\ ~EntryIsNumeric(last.bubble_values[i]) /\ last.bubble_values[i].v.value = 30
          /\ ~EntryIsNumeric(last.bubble_values[j]) /\ last.bubble_values[j].v.value = 80
          /\ EntryIsSeparator(last.bubble_values[k])
          /\ DictHas(last.regular_bubbles, EntryQuestion(last.bubble_values[i]))
          /\ DictGet(last.regular_bubbles, EntryQuestion(last.bubble_values[i]))
                 = <<EntryChoice(last.bubble_values[i])>>
          /\ DictHas(DictGet(last.numeric_bubbles, EntryQuestion(last.bubble_values[k])),
                     EntryPosition(last.bubble_values[k]))

\* C3: every threshold process_single_image classifies a page with is at
\* most GLOBAL_THRESHOLD.
Thm_C3 ==
    last.outcome = "read" =>
        last.threshold.d > 0 /\ last.threshold.n <= GLOBAL_THRESHOLD * last.threshold.d

\* A page whose bubbles all read 220: the mean is above 210, the threshold 210.
Witness_C3 ==
    /\ last.outcome = "read"
    /\ last.threshold = IntFrac(GLOBAL_THRESHOLD)
    /\ \E i \in 1..Len(last.bubble_values) : ~EntryIsSeparator(last.bubble_values[i])
    /\ \A i \in 1..Len(last.bubble_values) :
          ~EntryIsSeparator(last.bubble_values[i]) => last.bubble_values[i].v.value = 220

\* C5: the numeric answer appended for a question that keeps a marked digit
\* is the concatenation, in ascending position order, of one character per
\* occupied position, D as '.', S as '/', digits as they are; it follows the
\* tokens recorded before.
Thm_C5 ==
    [][(IsCall /\ last'.outcome = "read") =>
        \A q \in NumericQuestions(last') :
            (MarkedDigit(last', q) /\ ProducesNumeric(last', q)) =>
                LET old == TokensOf(all_student_answers, last'.student_id, q)
                    new == TokensOf(all_student_answers', last'.student_id, q)
                IN /\ IsPrefix(old, new)
                   /\ Len(new) > Len(old)
                   /\ IsConcatenation(new[Len(old) + 1], last', q)]_vars

\* Positions {0:'1', 1:'D', 2:'5'} give "1.5".
Witness_C5 ==
    /\ last.outcome = "read"
    /\ DictHas(last.numeric_bubbles, Question(<<"1">>, <<"i">>))
    /\ DictGet(last.numeric_bubbles, Question(<<"1">>, <<"i">>))
           = << [k |-> 0, v |-> <<"1">>], [k |-> 1, v |-> <<"D">>], [k |-> 2, v |-> <<"5">>] >>
    /\ \E i \in 1..Len(TokensOf(all_student_answers, S1, Question(<<"1">>, <<"i">>))) :
          TokensOf(all_student_answers, S1, Question(<<"1">>, <<"i">>))[i] = <<"1", ".", "5">>

\* C6: for a numeric question with no marked digit on the page, nothing but
\* marked multiple-choice choices is appended to the student's answers: no
\* numeric answer.
Thm_C6 ==
    [][(IsCall /\ last'.outcome = "read") =>
        \A q \in NumericQuestions(last') :
            ~MarkedDigit(last', q) =>
                /\ IsPrefix(TokensOf(all_student_answers, last'.student_id, q),
                            TokensOf(all_student_answers', last'.student_id, q))
                /\ AppendedSet(q) \subseteq MarkedChoices(last', q)]_vars

\* A group that holds the decimal point alone, and no token for its question.
Witness_C6 ==
    /\ last.outcome = "read"
    /\ DictHas(last.numeric_bubbles, Question(<<"1">>, <<"i">>))
    /\ DictGet(last.numeric_bubbles, Question(<<"1">>, <<"i">>)) = << [k |-> 1, v |-> <<"D">>] >>
    /\ DictHas(all_student_answers, last.student_id)
    /\ TokensOf(all_student_answers, last.student_id, Question(<<"1">>, <<"i">>)) = <<>>

\* C7: every marked multiple-choice choice that is not linked to a numeric
\* group is appended to the student's answers, and so is a linked one when the
\* question had no token and gets no numeric answer; at the end a list of the
\* two tokens a and c gives the cell "a,c".
Thm_C7 ==
    /\ [][(IsCall /\ last'.outcome = "read") =>
            \A q \in RegularQuestions(last') : \A choice \in MarkedChoices(last', q) :
                (\/ ~LinkedChoice(last', q, choice)
                 \/ /\ TokensOf(all_student_answers, last'.student_id, q) = <<>>
                    /\ ~ProducesNumeric(last', q))
                => choice \in AppendedSet(q)]_vars
    /\ [](pc = "done" =>
            \A r \in 1..Len(consolidated.index) : \A col \in 1..Len(consolidated.columns) :
                TokensOf(all_student_answers, consolidated.index[r], consolidated.columns[col])
                    \in {<< <<"a">>, <<"c">> >>, << <<"c">>, <<"a">> >>}
                => consolidated.cells[r][col] = <<"a", ",", "c">>)

\* The choices a and c were both marked on the last page and the student's
\* cell reads "a,c".
Witness_C7 ==
    /\ pc = "done"
    /\ last.outcome = "read"
    /\ {<<"a">>, <<"c">>} \subseteq MarkedChoices(last, Question(<<"1">>, <<"i">>))
    /\ \E r \in 1..Len(consolidated.index) :
          /\ consolidated.index[r] = last.student_id
          /\ consolidated.cells[r][1] = <<"a", ",", "c">>

\* C8: when a page produces a numeric answer for a question, a marked choice
\* of the question that is linked to the numeric group is not appended.
Thm_C8 ==
    [][(IsCall /\ last'.outcome = "read") =>
        \A q \in RegularQuestions(last') : \A choice \in MarkedChoices(last', q) :
            (ProducesNumeric(last', q) /\ LinkedChoice(last', q, choice))
            => choice \notin AppendedSet(q)]_vars

\* The "Other" choice e was marked with the digits: the answers hold "1.5"
\* and no e.
Witness_C8 ==
    /\ last.outcome = "read"
    /\ <<"e">> \in MarkedChoices(last, Question(<<"1">>, <<"i">>))
    /\ ProducesNumeric(last, Question(<<"1">>, <<"i">>))
    /\ TokensOf(all_student_answers, last.student_id, Question(<<"1">>, <<"i">>))
           = << <<"1", ".", "5">> >>

\* C9: a step changes the answers of no student but the one whose page-image
\* is processed, and for that student every list keeps the tokens it had, in
\* place, before the ones added.
Thm_C9 ==
    [][/\ \A t \in DictKeys(all_student_answers') :
              t \notin DictKeys(all_student_answers) => (IsCall /\ t = last'.student_id)
       /\ \A t \in DictKeys(all_student_answers) :
              /\ t \in DictKeys(all_student_answers')
              /\ IF IsCall /\ t = last'.student_id
                 THEN \A q \in DictKeys(DictGet(all_student_answers, t)) :
                          IsPrefix(TokensOf(all_student_answers, t, q),
                                   TokensOf(all_student_answers', t, q))
                 ELSE DictGet(all_student_answers', t) = DictGet(all_student_answers, t)]_vars

\* The second page of s1 added a token to the one of its first page, with
\* the answers of s2 in the table.
Witness_C9 ==
    /\ last.outcome = "read"
    /\ last.student_id = S1
    /\ last.page_number = 2
    /\ Len(TokensOf(all_student_answers, S1, Question(<<"1">>, <<"i">>))) >= 2
    /\ TokensOf(all_student_answers, S1, Question(<<"1">>, <<"i">>))[1] = <<"a">>
    /\ TokensOf(all_student_answers, S2, Question(<<"1">>, <<"i">>)) # <<>>

\* ------------------------------------------------------------------ claims on the order of the folders
\* The answers of a run that takes the subdirectories in ascending name order.
RECURSIVE WalkGroups(_, _, _)
WalkGroups(groups, results_df, answers) ==
    IF groups = <<>> THEN answers
    ELSE LET file_list == SortedFiles({Head(groups).v[i] : i \in 1..Len(Head(groups).v)})
             r == process_single_image(file_list[1], fs.img[file_list[1]], df_bubbles,
                                       results_df, answers)
         IN WalkGroups(Tail(groups), r.results_df, r.all_student_answers)

RECURSIVE WalkSorted(_, _)
RECURSIVE WalkDirs(_, _)
WalkSorted(directory, answers) ==
    WalkDirs(SortedStrSet(fs.subdirs[directory]),
             WalkGroups(GroupFiles(SortedFiles(fs.files[directory]), <<>>), <<>>, answers))

WalkDirs(dirs, answers) ==
    IF dirs = <<>> THEN answers
    ELSE WalkDirs(Tail(dirs), WalkSorted(Head(dirs), answers))

\* C10: the consolidated table is the same for every order in which the page
\* directories are processed: it is the table of the run in ascending order.
Cex_C10 ==
    pc = "done" => consolidated \in create_consolidated_output(WalkSorted(fs.root, <<>>))

\* ------------------------------------------------------------------ claims on point_to_pixel
\* -1, 0 or 1 as the magnitude of the double q is below, at or above the
\* whole number k >= 0.
MagnitudeCmp(q, k) ==
    IF q.e >= 0 THEN BigCmp(BigShl(q.m, q.e), BigOfInt(k))
    ELSE BigCmp(q.m, BigShl(BigOfInt(k), -q.e))

\* The integer r is the double q rounded down: r <= q < r + 1.
IsFloorOf(r, q) ==
    IF q.neg
    THEN r < 0 /\ MagnitudeCmp(q, -r) <= 0 /\ MagnitudeCmp(q, -r - 1) > 0
    ELSE r >= 0 /\ MagnitudeCmp(q, r) >= 0 /\ MagnitudeCmp(q, r + 1) < 0

\* The integer r is the double q rounded toward zero.
IsTruncationOf(r, q) ==
    IF q.neg
    THEN r <= 0 /\ MagnitudeCmp(q, -r) >= 0 /\ MagnitudeCmp(q, -r + 1) < 0
    ELSE IsFloorOf(r, q)

\* C19 as amended: point_to_pixel(value, dpi) is the double quotient
\* value * dpi / 72.27 rounded toward zero, for positive, zero and negative
\* values; for value >= 0 that is the floor of the double quotient, for a
\* negative double quotient that is no whole number the floor plus one.
Thm_C19 ==
    pc = "px_returned" =>
        LET q == PixelQuotient(pt.value, pt.dpi) IN
        /\ IsTruncationOf(pt.result, q)
        /\ ~q.neg => IsFloorOf(pt.result, q)
        /\ (q.neg /\ MagnitudeCmp(q, -pt.result) # 0) => IsFloorOf(pt.result - 1, q)

\* -0.5 point at 200 dpi is -1.38 pixels: -1, where the floor is -2.
Witness_C19 ==
    pc = "px_returned" /\ pt.value = Point(-5000, 0) /\ pt.dpi = 200 /\ pt.result = -1

\* C19 as stated: point_to_pixel(value, dpi) is floor(value * dpi / 72.27)
\* for every value, negative ones included (the quotient read as the double
\* the code computes).
Cex_C19 ==
    pc = "px_returned" => IsFloorOf(pt.result, PixelQuotient(pt.value, pt.dpi))

\* p1 <= p2 for two point values: 10^6 times the value is 100 times the
\* units plus or minus 4949747.468...
PointLE(p1, p2) ==
    p1.units * 100 + p1.offsets * 4949747 <= p2.units * 100 + p2.offsets * 4949747

\* C20: at a fixed dpi point_to_pixel is monotonic non-decreasing in the point
\* value, negative values included, and point_to_pixel(0, dpi) = 0.
Thm_C20 ==
    pc = "px_returned" =>
        /\ pt.value = Point(0, 0) => pt.result = 0
        /\ (pt.calls >= 2 /\ PointLE(pt.prev_value, pt.value)) => pt.prev_result <= pt.result

\* A negative value, then a positive one: a negative pixel, then a positive.
Witness_C20 ==
    /\ pc = "px_returned"
    /\ pt.calls = 2
    /\ pt.prev_value.units < 0 /\ pt.prev_value.offsets = 0 /\ pt.prev_result < 0
    /\ pt.value.units > 0 /\ pt.value.offsets = 0 /\ pt.result > 0

\* ------------------------------------------------------------------ claims on create_consolidated_output
\* The string cell is the tokens in ascending order, joined by commas.
IsSortedJoin(cell, tokens) ==
    \E p \in [1..Len(tokens) -> 1..Len(tokens)] :
        /\ \A i, j \in 1..Len(tokens) : i # j => p[i] # p[j]
        /\ \A i \in 1..(Len(tokens) - 1) : ~StrLT(tokens[p[i + 1]], tokens[p[i]])
        /\ cell = JoinComma([i \in 1..Len(tokens) |-> tokens[p[i]]])

\* Every question some student has an entry for.
AllQuestions ==
    UNION {DictKeys(all_student_answers[i].v) : i \in 1..Len(all_student_answers)}

\* C11: in the consolidated table the rows are the students in ascending ID
\* order, the columns the questions in strictly ascending order of (integer
\* problem number, subquestion), one column a question; a cell is the
\* student's tokens for the question sorted and joined by commas, and empty
\* where the student has no token.
Thm_C11 ==
    (pc = "done" /\ consolidated.written) =>
        LET index == consolidated.index
            columns == consolidated.columns
        IN /\ {index[r] : r \in 1..Len(index)} = DictKeys(all_student_answers)
           /\ \A r \in 1..(Len(index) - 1) : StrLT(index[r], index[r + 1])
           /\ {columns[c] : c \in 1..Len(columns)} = AllQuestions
           /\ \A c \in 1..(Len(columns) - 1) :
                  LET p == Split(columns[c], ".")
                      q == Split(columns[c + 1], ".")
                  IN \/ IntOf(p[1]) < IntOf(q[1])
                     \/ IntOf(p[1]) = IntOf(q[1]) /\ StrLT(p[2], q[2])
           /\ \A r \in 1..Len(index) : \A c \in 1..Len(columns) :
                  LET tokens == TokensOf(all_student_answers, index[r], columns[c])
                  IN IF tokens = <<>> THEN consolidated.cells[r][c] = <<>>
                     ELSE IsSortedJoin(consolidated.cells[r][c], tokens)

\* Students s1 and s2 and the questions 2.i, 2.ii, 10.i: s1 answered 10.i
\* alone, s2 answered 2.i and 2.ii.
Witness_C11 ==
    /\ pc = "done"
    /\ consolidated.index = <<S1, S2>>
    /\ consolidated.columns = << Question(<<"2">>, <<"i">>), Question(<<"2">>, <<"i", "i">>),
                                 Question(<<"1", "0">>, <<"i">>) >>
    /\ consolidated.cells = << << <<>>, <<>>, <<"a">> >>, << <<"a">>, <<"a">>, <<>> >> >>

\* ------------------------------------------------------------------ claims on run_omr and process_directory
\* C12: when run_omr has returned, the consolidated answers file has been
\* written.
Cex_C12 ==
    pc = "done" => consolidated.written

\* The first file of every group of directory d.
PrimaryFiles(d) ==
    LET groups == GroupFiles(SortedFiles(fs.files[d]), <<>>) IN
    {groups[i].v[1] : i \in 1..Len(groups)}

\* The frame of the directory being processed, after the step.
TopAfter == stack'[Len(stack')]

\* The step is a call of process_single_image that leaves the table, the
\* per-page results and the files written as they were, and the walk at the
\* next group of the same directory.
RecordsNothingAndGoesOn ==
    /\ all_student_answers' = all_student_answers
    /\ csv_files' = csv_files
    /\ pdf_files' = pdf_files
    /\ pc' = "walk"
    /\ Len(stack') = Len(stack)
    /\ TopAfter.results_df = Top.results_df
    /\ TopAfter.groups = Tail(Top.groups)
    /\ TopAfter.subdirs = Top.subdirs
    /\ TopAfter.phase = Top.phase

\* C13: a call on a primary image that does not load returns no overlay and
\* changes neither the student answers nor the per-page results nor the pages
\* kept for the PDFs, and the walk goes on with the next group; at the end of
\* the run every directory with images has its per-page results written, and
\* a student whose only primary image in a directory did not load has no PDF
\* there.
Thm_C13 ==
    /\ [][(IsCall /\ ~fs.img[last'.image_path].readable) =>
            /\ last'.outcome = "load_failed"
            /\ RecordsNothingAndGoesOn
            /\ TopAfter.overlay_images = Top.overlay_images]_vars
    /\ [](pc = "done" =>
            \A d \in DOMAIN fs.files :
                /\ fs.files[d] # {} => DictHas(csv_files, d)
                /\ \A f \in PrimaryFiles(d) :
                       DictHas(pdf_files, <<d, f.stem[1]>>)
                       <=> \E g \in PrimaryFiles(d) :
                               g.stem[1] = f.stem[1] /\ fs.img[g].readable)

\* The scan of s1 on page 1 did not load: the run went on to s2 and to the
\* folder of page 3 and ended with the table of s2 alone and no PDF of s1
\* for page 1.
Witness_C13 ==
    /\ pc = "done"
    /\ df_bubbles = TableMulti
    /\ ~fs.img[File(<<"1">>, <<S1, <<"1">>>>, PNG)].readable
    /\ fs.img[File(<<"1">>, <<S2, <<"1">>>>, PNG)].readable
    /\ fs.img[File(<<"3">>, <<S1, <<"3">>>>, PNG)].readable
    /\ DictKeys(all_student_answers) = {S2}
    /\ DictKeys(pdf_files) = {<< <<"1">>, S2 >>, << <<"3">>, S1 >>}
    /\ DictKeys(csv_files) = {<<"1">>, <<"3">>}

\* The rows the bubble table holds for the page the folder of file f is named for.
RowsOfFolder(f) == {i \in 1..Len(df_bubbles) : df_bubbles[i].page = IntOf(f.dir)}

\* C14: a call on an image that loads, of a page the bubble table has no row
\* for, computes no threshold and changes neither the student answers (the
\* set of student IDs included) nor the per-page results, and the walk goes
\* on with the next group.
Thm_C14 ==
    [][(/\ IsCall
        /\ fs.img[last'.image_path].readable
        /\ IsDigitStr(last'.image_path.dir)
        /\ RowsOfFolder(last'.image_path) = {}) =>
            /\ last'.outcome = "no_bubbles"
            /\ last'.threshold = NoThreshold
            /\ last'.bubble_values = <<>>
            /\ DictKeys(all_student_answers') = DictKeys(all_student_answers)
            /\ RecordsNothingAndGoesOn]_vars

\* The scan of s1 in the folder of page 3 was the first one processed: the
\* table has no student, and the scans of page 1 are still to come.
Witness_C14 ==
    /\ pc = "walk"
    /\ last.outcome = "no_bubbles"
    /\ last.student_id = S1
    /\ last.page_number = 3
    /\ all_student_answers = <<>>
    /\ Top.directory = <<"3">>
    /\ Top.results_df = <<>>
    /\ Len(stack) = 2 /\ stack[1].subdirs = << <<"1">> >>

\* ------------------------------------------------------------------ claims on alignment and sampling
\* The last call of process_single_image loaded its image.
Loaded == last.outcome \in {"no_bubbles", "no_values", "read"}

\* The rows the bubble table holds for the page of the last call.
RowsOfPage == {i \in 1..Len(df_bubbles) : df_bubbles[i].page = last.page_number}

\* C15: the image handed on by align_image_with_markers is the warped one
\* exactly when each of the four corner scores is at least THRESHOLD_CIRCLE
\* (a score of exactly 0.6 passes) and the input image itself otherwise; with
\* a corner below 0.6 the page is still sampled, on the unaligned image, its
\* threshold computed and the student's entry recorded.
Thm_C15 ==
    Loaded =>
        LET img == fs.img[last.image_path]
            pass == \A i \in 1..4 : img.confidence[i] >= THRESHOLD_CIRCLE
        IN /\ pass => last.image = [img EXCEPT !.mean = img.warped, !.warps = 1]
           /\ ~pass => last.image = img
           /\ (~pass /\ RowsOfPage # {}) =>
                  /\ last.outcome = "read"
                  /\ last.threshold # NoThreshold
                  /\ DictHas(all_student_answers, last.student_id)
                  /\ Len(last.bubble_values) = Cardinality(RowsOfPage)
                  /\ \A i \in 1..Len(last.bubble_values) :
                         LET e == last.bubble_values[i] IN
                         (~EntryIsSeparator(e) /\ RegionSize(e.v.pos, img.shape) > 0)
                             => e.v.value = img.mean[e.v.pos]

\* The first corner scored 0.59: the page was read as scanned, where choice
\* a is dark (the warp would have shown it light), and a was recorded.
Witness_C15 ==
    /\ last.outcome = "read"
    /\ fs.img[last.image_path].confidence = <<59, 60, 60, 60>>
    /\ last.image = fs.img[last.image_path]
    /\ \E i \in 1..Len(last.bubble_values) :
          /\ EntryChoice(last.bubble_values[i]) = <<"a">>
          /\ last.bubble_values[i].v.value = 60
          /\ fs.img[last.image_path].warped[last.bubble_values[i].v.pos] = 220
    /\ TokensOf(all_student_answers, last.student_id, Question(<<"1">>, <<"i">>))
           = << <<"a">> >>

\* (left, top, right, bottom) of a bubble's sample box before it is clipped.
RawBox(bubble, dpi) ==
    << point_to_pixel(Point(bubble.Xpos * 10000, -1), dpi[1]),
       point_to_pixel(Point(bubble.Ypos * 10000, -1), dpi[2]),
       point_to_pixel(Point(bubble.Xpos * 10000, 1), dpi[1]),
       point_to_pixel(Point(bubble.Ypos * 10000, 1), dpi[2]) >>

\* The box lies entirely outside an image of the shape (height, width): left
\* of or above the origin, or beyond the right or the bottom edge.
OutsideImage(raw, shape) ==
    raw[3] <= 0 \/ raw[4] <= 0 \/ raw[1] >= shape[2] \/ raw[2] >= shape[1]

\* C16: a bubble whose sample box lies entirely outside the image has a
\* clipped box of zero area and is read as intensity 255.
Cex_C16 ==
    last.outcome = "read" =>
        \A i \in RowsOfPage :
            LET bubble == df_bubbles[i]
                read == DictGet(last.bubble_values, BubbleKey(bubble))
            IN (/\ Len(Split(bubble.question, "-")) < 3
                /\ OutsideImage(RawBox(bubble, last.image.dpi), last.image.shape))
               => /\ RegionSize(read.pos, last.image.shape) = 0
                  /\ read.value = 255

\* The row of the student of the last call in the per-page results of its
\* folder: in the frame of the folder, or in the file written from it.
RecordedRow ==
    LET results_df == IF DictHas(csv_files, last.image_path.dir)
                      THEN DictGet(csv_files, last.image_path.dir)
                      ELSE Top.results_df
    IN DictGet(results_df, last.student_id)

\* Every bubble of the page of the last call is a D/S position.
OnlySeparators ==
    /\ last.outcome = "read"
    /\ \A i \in 1..Len(last.bubble_values) : EntryIsSeparator(last.bubble_values[i])

\* C17 as amended: when every bubble defined for the page is a D/S position,
\* the threshold used and recorded for the page is GLOBAL_THRESHOLD (210),
\* and the page is processed to its end.
Thm_C17 ==
    OnlySeparators =>
        /\ last.threshold = IntFrac(GLOBAL_THRESHOLD)
        /\ DictGet(RecordedRow.threshold, last.page_number) = IntFrac(GLOBAL_THRESHOLD)
        /\ RecordedRow.cells = <<>>
        /\ DictHas(all_student_answers, last.student_id)

\* The page that holds a decimal point alone, written to the per-page results
\* with the threshold 210.
Witness_C17 ==
    /\ OnlySeparators
    /\ df_bubbles = TableSeparators
    /\ DictHas(csv_files, <<"1">>)
    /\ DictGet(DictGet(csv_files, <<"1">>), S1).threshold
           = << [k |-> 1, v |-> IntFrac(210)] >>

\* C17 as stated: the threshold used and recorded for such a page is
\* min(200, GLOBAL_THRESHOLD) = 200.
Cex_C17 ==
    OnlySeparators =>
        /\ last.threshold = IntFrac(200)
        /\ DictGet(RecordedRow.threshold, last.page_number) = IntFrac(200)

\* C18: no token occurs twice in the list a student's entry holds for a
\* question.
Cex_C18 ==
    \A s \in 1..Len(all_student_answers) :
        \A q \in 1..Len(all_student_answers[s].v) :
            LET tokens == all_student_answers[s].v[q].v IN
            \A i, j \in 1..Len(tokens) : i # j => tokens[i] # tokens[j]

\* ------------------------------------------------------------------ C21
\* C21: two runs of run_omr on the same folder tree and bubble table end
\* with the same consolidated table: once the second run is through, the
\* table it wrote is the table the first run wrote.
Cex_C21 ==
    (pc = "done" /\ earlier.runs = 1) => consolidated = earlier.consolidated

\* ------------------------------------------------------------------ C22
\* Two files of one directory whose names start with the same
\* "<student_id>_<page_part>".
SameGroup(f, g) ==
    /\ f.dir = g.dir
    /\ Len(f.stem) >= 2 /\ Len(g.stem) >= 2
    /\ f.stem[1] = g.stem[1] /\ f.stem[2] = g.stem[2]

\* The file is the first of its group in ascending name order.
IsFirstOfGroup(f) ==
    /\ Len(f.stem) >= 2
    /\ \A g \in fs.files[f.dir] : SameGroup(f, g) => ~StrLT(FileName(g), FileName(f))

\* The other files of the group of f that load.
OtherFilesOfGroup(f) ==
    {g \in fs.files[f.dir] : SameGroup(f, g) /\ g # f /\ fs.img[g].readable}

\* The pages are the page of f followed by the other files of its group that
\* load, in ascending name order, as images without marks.
IsMainThenOthers(pages, f) ==
    /\ Len(pages) = 1 + Cardinality(OtherFilesOfGroup(f))
    /\ pages[1].src = f
    /\ \A i \in 2..Len(pages) :
          /\ pages[i].src \in OtherFilesOfGroup(f)
          /\ pages[i].overlay = [kind |-> "image", marks |-> <<>>]
          /\ i > 2 => StrLT(FileName(pages[i - 1].src), FileName(pages[i].src))

\* C22: the file handed to process_single_image is always the first of its
\* group in sorted order; the answers and the per-page results change in no
\* step but such a call; and when the call returns an overlay the student's
\* PDF pages are that overlay followed by the other files of the group.
Thm_C22 ==
    [][/\ IsCall => IsFirstOfGroup(last'.image_path)
       /\ all_student_answers' # all_student_answers => IsCall
       /\ (/\ stack # <<>> /\ Len(stack') = Len(stack)
           /\ TopAfter.results_df # Top.results_df) => IsCall
       /\ (IsCall /\ last'.outcome # "load_failed") =>
             /\ DictHas(TopAfter.overlay_images, last'.student_id)
             /\ IsMainThenOthers(DictGet(TopAfter.overlay_images, last'.student_id),
                                 last'.image_path)
      ]_vars

\* A scan of a group of two files was read and the student's pages are the
\* overlay and the additional file.
Witness_C22 ==
    /\ pc = "walk" /\ stack # <<>>
    /\ last.outcome = "read"
    /\ last.image_path.dir = Top.directory
    /\ OtherFilesOfGroup(last.image_path) # {}
    /\ DictHas(Top.overlay_images, last.student_id)
    /\ Len(DictGet(Top.overlay_images, last.student_id)) = 2
    /\ Len(all_student_answers) >= 1

\* ------------------------------------------------------------------ C23
\* C23: a marked multiple-choice choice is left out of the tokens a call
\* appends only when it is the choice linked to a numeric group of its
\* question and the same page produced a numeric answer for that question.
Cex_C23 ==
    [][(IsCall /\ last'.outcome = "read") =>
        \A q \in RegularQuestions(last') : \A choice \in MarkedChoices(last', q) :
            choice \notin AppendedSet(q) =>
                (LinkedChoice(last', q, choice) /\ ProducesNumeric(last', q))]_vars

\* ------------------------------------------------------------------ C24
\* The token holds a digit: it is a numeric answer, no multiple-choice choice.
IsNumericAnswer(token) ==
    \E i \in 1..Len(token) :
        token[i] \in {"0", "1", "2", "3", "4", "5", "6", "7", "8", "9"}

\* C24: when a digit bubble (0-9) of a numeric question is marked on the
\* page, the call appends a numeric answer for that question.
Cex_C24 ==
    [][(IsCall /\ last'.outcome = "read") =>
        \A q \in NumericQuestions(last') :
            MarkedDigit(last', q) =>
                \E token \in AppendedSet(q) : IsNumericAnswer(token)]_vars

\* ------------------------------------------------------------------ C28
\* The positions kept for question q by call c, an empty dict when it has none.
PositionsOf(c, q) ==
    IF DictHas(c.numeric_bubbles, q) THEN DictGet(c.numeric_bubbles, q) ELSE <<>>

\* C28: in a numeric group every position that has a qualifying bubble (a D/S
\* position or a marked digit) keeps exactly one of them, the one that comes
\* first in the page's bubble table, and a numeric answer has exactly one
\* character for each such position.
Thm_C28 ==
    [][(IsCall /\ last'.outcome = "read") =>
        \A q \in NumericQuestions(last') :
            LET positions == PositionsOf(last', q) IN
            /\ {positions[i].k : i \in 1..Len(positions)} = OccupiedPositions(last', q)
            /\ Len(positions) = Cardinality(OccupiedPositions(last', q))
            /\ \A i \in 1..Len(positions) :
                  positions[i].v = KeptDigit(last', q, positions[i].k)
            /\ \A token \in AppendedSet(q) :
                  IsNumericAnswer(token) => IsConcatenation(token, last', q)]_vars

\* The digits 3 and 4 of position 1 are both marked and the decimal point
\* shares position 0 with the digit 7: the answer is ".3".
Witness_C28 ==
    /\ last.outcome = "read"
    /\ df_bubbles = TableShadow
    /\ Cardinality({i \in Qualifying(last, Question(<<"1">>, <<"i">>)) :
                       EntryPosition(last.bubble_values[i]) = 1}) = 2
    /\ PositionsOf(last, Question(<<"1">>, <<"i">>))
           = << [k |-> 0, v |-> <<"D">>], [k |-> 1, v |-> <<"3">>] >>
    /\ TokensOf(all_student_answers, last.student_id, Question(<<"1">>, <<"i">>))
           = << <<".", "3">> >>

\* ------------------------------------------------------------------ C25
\* The intensities of the bubbles of call c that are no D/S position, in
\* table order.
PageValues(c) ==
    LET entries == SelectSeq(c.bubble_values, LAMBDA e : ~EntryIsSeparator(e))
    IN [i \in 1..Len(entries) |-> entries[i].v.value]

\* C25: the threshold of a page that has a bubble other than D/S positions
\* is determined by the intensities of those bubbles alone: min(210, midpoint
\* of their largest gap above MIN_JUMP), or min(210, their mean) when there is
\* no such gap, whatever D/S positions the page has.
Thm_C25 ==
    (last.outcome = "read" /\ PageValues(last) # <<>>) =>
        LET values == PageValues(last) IN
        IF HasJump(values)
        THEN LET p == LargestGapPair(values)
             IN IsCappedQuotient(last.threshold, p[1] + p[2], 2)
        ELSE IsCappedQuotient(last.threshold, SumSeq(values), Len(values))

\* A page with a decimal point whose five bubbles all read 30: the threshold
\* is 30; with the sentinel 100 among the values it would be 65.
Witness_C25 ==
    /\ last.outcome = "read"
    /\ \E i \in 1..Len(last.bubble_values) : EntryIsSeparator(last.bubble_values[i])
    /\ Len(PageValues(last)) = 5
    /\ ValuesOf(PageValues(last)) = {30}
    /\ last.threshold = [n |-> 30, d |-> 1]

\* ------------------------------------------------------------------ C26
\* The outputs of directory p are written: its per-page results and the PDF
\* of every student whose first file loaded.
OutputsWritten(p) ==
    /\ DictHas(csv_files, p)
    /\ \A f \in fs.files[p] :
          (IsFirstOfGroup(f) /\ fs.img[f].readable) => DictHas(pdf_files, <<p, f.stem[1]>>)

\* C26: the outputs of a directory are written once all its groups are
\* through and by no other step; an image is processed before the outputs of
\* its own directory are written and, when the directory that holds its
\* directory has images, after the outputs of that directory are written.
Thm_C26 ==
    [][/\ csv_files' # csv_files =>
             /\ stack # <<>> /\ Top.groups = <<>>
             /\ ~DictHas(csv_files, Top.directory)
             /\ OutputsWritten(Top.directory)'
       /\ IsCall =>
             /\ ~DictHas(csv_files', last'.image_path.dir)
             /\ \A p \in DOMAIN fs.subdirs :
                   (last'.image_path.dir \in fs.subdirs[p] /\ fs.files[p] # {})
                   => OutputsWritten(p)
      ]_vars

\* The scan in the folder of page 2, which lies in the folder of page 1, is
\* read after the results and the PDF of page 1 are written.
Witness_C26 ==
    /\ pc = "walk"
    /\ last.outcome = "read"
    /\ last.image_path.dir = <<"2">>
    /\ fs.subdirs[<<"1">>] = {<<"2">>}
    /\ fs.img[File(<<"1">>, <<S1, <<"1">>>>, PNG)].readable
    /\ OutputsWritten(<<"1">>)
    /\ ~DictHas(csv_files, <<"2">>)

\* ------------------------------------------------------------------ C27
\* What the overlay of the call's page shows for each key: the marks of the
\* first page kept for the student in the directory being processed.
OverlayMarks(frame, student_id) == DictGet(frame.overlay_images, student_id)[1].overlay.marks

\* The choices process_single_image recorded as marked for question q.
RecordedChoices(c, q) ==
    IF DictHas(c.regular_bubbles, q)
    THEN {DictGet(c.regular_bubbles, q)[i] : i \in 1..Len(DictGet(c.regular_bubbles, q))}
    ELSE {}

\* C27: the overlay of a page read has one mark per bubble; a D/S position
\* is drawn as a circle; any other bubble is drawn in the marked colour
\* exactly when its intensity is strictly below the page threshold and below
\* 210, which for a multiple-choice bubble is exactly when the call recorded
\* its choice as marked, and in the unmarked colour otherwise.
Thm_C27 ==
    [][(IsCall /\ last'.outcome = "read") =>
        /\ DictHas(TopAfter.overlay_images, last'.student_id)
        /\ LET marks == OverlayMarks(TopAfter, last'.student_id) IN
           /\ Len(marks) = Len(last'.bubble_values)
           /\ \A i \in 1..Len(marks) :
                 LET e == last'.bubble_values[i] IN
                 /\ marks[i].k = e.k
                 /\ IF EntryIsSeparator(e) THEN marks[i].v = "circle"
                    ELSE /\ marks[i].v \in {"MARKED_COLOR", "OVERLAY_COLOR"}
                         /\ marks[i].v = "MARKED_COLOR"
                                <=> BelowBoth(e.v.value, last'.threshold)
                         /\ ~EntryIsNumeric(e) =>
                               (marks[i].v = "MARKED_COLOR"
                                <=> EntryChoice(e) \in RecordedChoices(last', EntryQuestion(e)))
      ]_vars

\* An overlay with a circle, a marked and an unmarked box; the choice drawn
\* as marked is recorded, the one drawn as unmarked is not.
Witness_C27 ==
    /\ pc = "walk" /\ stack # <<>>
    /\ last.outcome = "read"
    /\ last.image_path.dir = Top.directory
    /\ DictHas(Top.overlay_images, last.student_id)
    /\ LET marks == OverlayMarks(Top, last.student_id) IN
       /\ {marks[i].v : i \in 1..Len(marks)} = {"circle", "MARKED_COLOR", "OVERLAY_COLOR"}
       /\ \E i, j \in 1..Len(marks) :
             /\ ~EntryIsNumeric(last.bubble_values[i])
             /\ ~EntryIsNumeric(last.bubble_values[j])
             /\ marks[i].v = "MARKED_COLOR" /\ marks[j].v = "OVERLAY_COLOR"
             /\ RecordedChoices(last, EntryQuestion(last.bubble_values[i]))
                    = {EntryChoice(last.bubble_values[i])}

\* ------------------------------------------------------------------ C29
\* The intensity is strictly below min(mean of the values, 210).
BelowMean(v, values) == v * Len(values) < SumSeq(values) /\ v < GLOBAL_THRESHOLD

\* C29: on a page whose non-D/S intensities are not all equal, have no
\* consecutive sorted gap above MIN_JUMP and have a minimum below 210, the
\* bubbles recorded as marked are those strictly below min(mean, 210), and
\* there is at least one.
Thm_C29 ==
    LET values == PageValues(last) IN
    (/\ last.outcome = "read"
     /\ Cardinality(ValuesOf(values)) > 1
     /\ ~HasJump(values)
     /\ \E v \in ValuesOf(values) : v < GLOBAL_THRESHOLD)
    => /\ \E i \in 1..Len(last.bubble_values) :
             LET e == last.bubble_values[i] IN
             /\ ~EntryIsSeparator(e)
             /\ BelowBoth(e.v.value, last.threshold)
             /\ IF EntryIsNumeric(e)
                THEN DictHas(PositionsOf(last, EntryQuestion(e)), EntryPosition(e))
                ELSE EntryChoice(e) \in RecordedChoices(last, EntryQuestion(e))
       /\ \A i \in 1..Len(last.bubble_values) :
             LET e == last.bubble_values[i] IN
             ~EntryIsSeparator(e) =>
                 /\ BelowMean(e.v.value, values) <=> BelowBoth(e.v.value, last.threshold)
                 /\ ~EntryIsNumeric(e) =>
                       (BelowMean(e.v.value, values)
                        <=> EntryChoice(e) \in RecordedChoices(last, EntryQuestion(e)))

\* Four bubbles at 200 and one at 220: no gap above MIN_JUMP, the threshold
\* is the mean 204 and the three choices at 200 are recorded as marked.
Witness_C29 ==
    /\ last.outcome = "read"
    /\ ValuesOf(PageValues(last)) = {200, 220}
    /\ last.threshold = [n |-> 204, d |-> 1]
    /\ RecordedChoices(last, Question(<<"1">>, <<"i">>)) = {<<"a">>, <<"c">>, <<"e">>}

\* ------------------------------------------------------------------ C30
\* The student IDs the file names of the parsed folder start with.
StudentsOfFolder ==
    {f.stem[1] : f \in UNION {fs.files[d] : d \in DOMAIN fs.files}}

\* Some first file of a group of the student loads and the bubble table has
\* rows for the page of its folder.
HasReadPage(student_id) ==
    \E d \in DOMAIN fs.files : \E f \in fs.files[d] :
        /\ IsFirstOfGroup(f)
        /\ f.stem[1] = student_id
        /\ fs.img[f].readable
        /\ RowsOfFolder(f) # {}

\* C30: when the consolidated table is written its rows are student IDs of
\* the folder, each once, and a student has a row exactly when one of the
\* student's primary images loaded and its page has rows in the bubble table.
Thm_C30 ==
    (pc = "done" /\ consolidated.written) =>
        /\ \A r \in 1..Len(consolidated.index) :
              /\ consolidated.index[r] \in StudentsOfFolder
              /\ \A o \in 1..Len(consolidated.index) :
                    consolidated.index[o] = consolidated.index[r] => o = r
        /\ \A student_id \in StudentsOfFolder :
              (\E r \in 1..Len(consolidated.index) : consolidated.index[r] = student_id)
              <=> HasReadPage(student_id)

\* No scan of s1 loaded and the scan of s2 shows no marked bubble: the table
\* has the row of s2 and no column.
Witness_C30 ==
    /\ pc = "done"
    /\ consolidated.written
    /\ fs.files = TreeTwo.files
    /\ consolidated.index = <<S2>>
    /\ consolidated.columns = <<>>
    /\ all_student_answers = << [k |-> S2, v |-> <<>>] >>

====
